---- MODULE Spec2Model ----
(***************************************************************************)
(* Cyclocross game: the cyclist state machine (StateMachineComponent and   *)
(* the four states of systems/cyclist_states.py) together with the parts   *)
(* of the entity/component frame it interacts with (PhysicsComponent,      *)
(* TransformComponent rotation, CommandInputComponent).                    *)
(*                                                                         *)
(* Units.  Time is counted in tenths of a second.  Speeds are counted in   *)
(* 1/VelScale px/s, forces in newtons, angles in milliradians, unit        *)
(* vectors in hundredths.  Floating point results are rounded to these     *)
(* grids; multiplying a velocity by 0.5 is exact in binary floating point  *)
(* and is exact in the model as well (see Representable).                  *)
(***************************************************************************)
EXTENDS Integers, Sequences, FiniteSets, TLC

VARIABLES
    owner,          \* who owns the machine: a CyclistWithStates ("player" when
                    \* is_player, "rider" when not) or a plain "entity"
    states,         \* StateMachineComponent._states (the registered types)
    current,        \* StateMachineComponent._current_state (its type) or None
    remElapsed,     \* RemountingState._elapsed_time
    crElapsed,      \* CrashedState._elapsed_time
    transitionTime, \* StateMachineComponent._transition_time
    history,        \* StateMachineComponent._history (types, oldest first)
    maxSpeed,       \* PhysicsComponent.max_speed
    velocity,       \* PhysicsComponent.velocity
    forces,         \* PhysicsComponent._accumulated_forces
    rotation,       \* TransformComponent._rotation
    lastEvents,     \* CommandInputComponent._last_events
    crashedFx,      \* CyclistWithStates._crashed_effect_active
    mass,           \* PhysicsComponent.mass
    raised,         \* the exception the last operation raised, or None
    components,     \* Entity._components of an entity assembled piece by piece:
                    \* the attached components in insertion order, each as
                    \* [type, id, enabled, ready]; id tells instances apart,
                    \* ready tells that init() returned
    entityActive,   \* Entity._active
    instances,      \* observer: component instances constructed so far
    updated,        \* observer: the ids whose update() the last step called, in order
    destroyCalls,    \* observer: for each instance constructed so far, by id, the calls of its destroy()
    toDestroy,       \* Entity._to_destroy
    managed,        \* whether the EntityManager holds the entity
    balance,         \* BalanceComponent: current_balance and instability in hundredths, _previous_rotation, and (observer) the calls made on it
    stamina,         \* StaminaComponent: current_stamina and fatigue_level in hundredths, _current_zone, _is_recovering, and (observer) the calls made on it
    terrain,         \* TerrainManager grid and TerrainPhysicsComponent: base values, cached terrain, the physics' max_speed (hundredths of px/s) and drag (thousandths), the entity's position, the last lookup's result
    loader,          \* TerrainMapLoader: a terrain manager, the file it was saved to, the dictionary last given to load_from_dict and what the load returned or raised
    factory,         \* TerrainFactory: the registry of cached instances, the instances built so far and what create returned
    transform,       \* TransformComponent._position, the position and rotation mirrored on the owning Entity, and (observer) the calls made on it; positions in 1/VelScale px
    dispatch,        \* CommandInputComponent on an entity of its own: the components the entity has, _enabled, and (observer) the commands handle_input returned and those executed in the last update, in order
    indexes,         \* EntityManager with its four indexes (_entities, _entities_by_id, _entities_by_type, _entities_by_tag) and the entities it is given: their _tags and _to_destroy, the exception of the last call, and (observer) the calls made
    physicsCalls,   \* observer: calls made on a PhysicsComponent driven directly
    active,         \* observer: the states that were entered and not yet exited
    alternates,     \* observer: every enter so far found no state active and
                    \* every exit found its own state active
    sinceEntry,     \* observer: update time passed to the machine since the last successful change_state
    lastOp,         \* observer: the operation the last step performed
    log             \* observer: the change_state calls of the last step, in order,
                    \* each as [from, to, force, ok]

vars == <<owner, states, current, remElapsed, crElapsed, transitionTime, history,
          maxSpeed, velocity, forces, rotation, lastEvents, crashedFx,
          mass, raised, components, entityActive, instances, updated, physicsCalls,
          destroyCalls,
          toDestroy,
          managed,
          balance,
          stamina,
          terrain,
          loader,
          factory,
          transform,
          dispatch,
          indexes,
          active, alternates, sinceEntry, lastOp, log>>

----------------------------------------------------------------------------
(* Bounds of the model *)

MaxTime == 30           \* updates stop once _transition_time would pass this
MaxShortTime == 12      \* the same for the player's cyclist and for the plain entity
MaxHistorySize == 1     \* max_history_size given to the component
MaxEvents == 2          \* longest event list handed to handle_events
MaxInstances == 4       \* component instances constructed on one entity
MaxCalls == 4           \* calls made on a component that is driven directly
MaxGridSide == 2        \* widest and highest grid of a saved terrain manager
HalvingBits == 2        \* exact halvings of a velocity between two physics updates

(* Program constants *)

RemountDuration == 10
RecoveryDuration == 20
CyclistMaxSpeed == 450
CyclistMass == 70
CyclistDragPerMille == 985
AccelerationForce == 50000
BrakeForce == 30000
SprintForce == 1200
TurnSpeedSlow == 4000
TurnSpeedFast == 1500
SpeedThreshold == 200
BrakeMinSpeed == 10
Pi == 3142
TileSize == 32
StaminaMax == 100
StaminaBaseDrainRate == 2
StaminaRecoveryRate == 8
StaminaVelocityPerMille == 15
StaminaSlopeTenths == 25
StaminaFatiguePenaltyTenths == 7
StaminaOptimalThreshold == 70
StaminaModerateThreshold == 40
StaminaCriticalThreshold == 10
FatigueAccumulationTenths == 5
FatigueMax == 100
FatigueRecoveryInCarrying == 2
BalanceMax == 100
BalanceRecoveryRate == 25
BalanceCriticalThreshold == 20
BalanceCrashThreshold == 5
BalanceCamberTenths == 15
BalanceSpeedTenths == 8
BalanceLowStaminaTenths == 18
BalanceGripFactor == 2

StateType == {"RIDING", "CARRYING", "REMOUNTING", "CRASHED"}
None == "None"
DtSet == {5, 6}
Keys == {"C", "SPACE"}          \* pygame.K_c, pygame.K_SPACE key-down events
VelScale == 2 ^ HalvingBits
Zero2 == <<0, 0>>

----------------------------------------------------------------------------
(* Arithmetic helpers: fixed point versions of the float operations *)

Abs(x) == IF x < 0 THEN -x ELSE x
Min(a, b) == IF a < b THEN a ELSE b

\* float division, rounded to the nearest point of the model's grid
\* (b is positive)
DivR(a, b) ==
    IF a >= 0 THEN (2 * a + b) \div (2 * b) ELSE -((2 * (-a) + b) \div (2 * b))

RECURSIVE SqrtSearch(_, _, _)
SqrtSearch(n, lo, hi) ==
    IF lo >= hi THEN lo
    ELSE LET mid == (lo + hi + 1) \div 2
         IN IF mid * mid <= n THEN SqrtSearch(n, mid, hi)
                              ELSE SqrtSearch(n, lo, mid - 1)

\* math.sqrt, rounded down
Isqrt(n) == SqrtSearch(n, 0, 46340)

\* math.sqrt, rounded to nearest
RoundSqrt(n) == LET r == Isqrt(n) IN IF n - r * r > r THEN r + 1 ELSE r

\* Vector2.length()
Length(v) == Isqrt(v[1] * v[1] + v[2] * v[2])

\* Vector2.__add__
VAdd(a, b) == <<a[1] + b[1], a[2] + b[2]>>

\* math.cos for an angle in [-Pi, Pi], in hundredths (Bhaskara's rational form)
CosQ(x) == DivR(100 * (Pi * Pi - 4 * x * x), Pi * Pi + x * x)
Cos100(r) ==
    IF 2 * Abs(r) <= Pi THEN CosQ(r) ELSE -CosQ(Pi - Abs(r))
Sin100(r) ==
    LET s == r - Pi \div 2
    IN Cos100(IF s < -Pi THEN s + 2 * Pi ELSE s)

\* TransformComponent.rotation setter: atan2(sin(value), cos(value))
NormalizeAngle(r) == ((r + Pi - 1) % (2 * Pi)) - Pi + 1

\* TransformComponent.get_forward_vector; cos and sin have the period of a
\* full turn, whatever rotation is stored
ForwardVector(r) ==
    LET reduced == NormalizeAngle(r)
    IN <<Cos100(reduced), Sin100(reduced)>>

\* pow(drag, delta_time * 60): drag applied once per 60 Hz frame
RECURSIVE PowDrag(_, _)
PowDrag(perMille, n) ==
    IF n = 0 THEN 10000 ELSE (PowDrag(perMille, n - 1) * perMille) \div 1000
DragFactor(dt) == PowDrag(CyclistDragPerMille, 6 * dt)

----------------------------------------------------------------------------
(* The program state as one record, so that the calls one handler makes    *)
(* can be composed in the order the code makes them.  exact records        *)
(* whether every float result so far is representable on the model's grid. *)

World ==
    [owner |-> owner, states |-> states, current |-> current,
     remElapsed |-> remElapsed, crElapsed |-> crElapsed,
     transitionTime |-> transitionTime, history |-> history,
     maxSpeed |-> maxSpeed, velocity |-> velocity, forces |-> forces,
     rotation |-> rotation, lastEvents |-> lastEvents, crashedFx |-> crashedFx,
     mass |-> mass, raised |-> None,
     components |-> components, entityActive |-> entityActive,
     instances |-> instances, updated |-> <<>>,
     destroyCalls |-> destroyCalls,
     toDestroy |-> toDestroy,
     managed |-> managed,
     balance |-> balance,
     stamina |-> stamina,
     terrain |-> terrain,
     loader |-> loader,
     factory |-> factory,
     transform |-> transform,
     dispatch |-> dispatch,
     indexes |-> indexes,
     physicsCalls |-> physicsCalls,
     active |-> active, alternates |-> alternates,
     sinceEntry |-> sinceEntry, log |-> <<>>, exact |-> TRUE]

Cyclists == {"player", "rider"}

\* cyclist.get_component(PhysicsComponent): only the CyclistWithStates has one
HasPhysics(w) == w.owner \in Cyclists
\* hasattr(cyclist, '_base_max_speed')
HasBaseMaxSpeed(w) == w.owner \in Cyclists
\* hasattr(cyclist, 'state_machine')
HasStateMachineAttr(w) == w.owner \in Cyclists
\* hasattr(cyclist, '_crashed_effect_active')
HasCrashedEffect(w) == w.owner \in Cyclists
\* StateMachineComponent._keep_history
KeepHistory(w) == w.owner \in Cyclists
\* if self.is_player: add_component(CommandInputComponent)
HasCommandInput(w) == w.owner = "player"

----------------------------------------------------------------------------
(* systems/cyclist_states.py: can_transition_to, enter, exit *)

RidingCanTransitionTo(t) == t \in {"CARRYING", "CRASHED"}
\* variant: the toggle key leads from CARRYING straight back to RIDING
CarryingCanTransitionToRiding(t) == t \in {"REMOUNTING", "CRASHED", "RIDING"}
CarryingCanTransitionTo(t) == t \in {"REMOUNTING", "CRASHED"}
\* variant: a remounting cyclist cannot crash
RemountingCanTransitionToRidingOnly(t) == t = "RIDING"
RemountingCanTransitionTo(t) == t \in {"RIDING", "CRASHED"}
\* variant: a crashed cyclist may crash again
CrashedCanTransitionToCrashed(t) == t \in {"REMOUNTING", "CRASHED"}
CrashedCanTransitionTo(t) == t = "REMOUNTING"

CanTransitionTo(s, t) ==
    CASE s = "RIDING" -> RidingCanTransitionTo(t)
      [] s = "CARRYING" -> CarryingCanTransitionTo(t)
      [] s = "REMOUNTING" -> RemountingCanTransitionTo(t)
      [] s = "CRASHED" -> CrashedCanTransitionTo(t)

\* variant: the velocity is not reduced
KeepVelocity(v) == v

\* physics.velocity * 0.5
HalfVelocity(v) == <<DivR(v[1], 2), DivR(v[2], 2)>>
Representable(v) == v[1] % 2 = 0 /\ v[2] % 2 = 0

\* cyclist._base_max_speed * self._carrying_speed_multiplier, multiplier 0.3
CarryingMaxSpeed == (CyclistMaxSpeed * 3) \div 10

RidingEnter(w) ==
    IF HasPhysics(w) /\ HasBaseMaxSpeed(w)
    THEN [w EXCEPT !.maxSpeed = CyclistMaxSpeed]
    ELSE w

RidingExit(w) == w

CarryingEnter(w) ==
    IF HasPhysics(w) /\ HasBaseMaxSpeed(w)
    THEN [w EXCEPT !.maxSpeed = CarryingMaxSpeed]
    ELSE w

\* variant: exit leaves the carrying cap in place
CarryingExitKeepsCap(w) == w

CarryingExit(w) ==
    IF HasPhysics(w) /\ HasBaseMaxSpeed(w)
    THEN [w EXCEPT !.maxSpeed = CyclistMaxSpeed]
    ELSE w

\* variant: enter does not reset _elapsed_time
RemountingEnterKeepsTimer(w) ==
    IF w.owner \in Cyclists
    THEN [w EXCEPT !.velocity = <<DivR(w.velocity[1], 2), DivR(w.velocity[2], 2)>>,
                   !.exact = w.exact /\ w.velocity[1] % 2 = 0 /\ w.velocity[2] % 2 = 0]
    ELSE w

RemountingEnter(w) ==
    LET w1 == [w EXCEPT !.remElapsed = 0]
    IN IF HasPhysics(w)
       THEN [w1 EXCEPT !.velocity = HalfVelocity(w.velocity),
                       !.exact = w.exact /\ Representable(w.velocity)]
       ELSE w1

RemountingExit(w) == w

CrashedEnter(w) ==
    LET w1 == [w EXCEPT !.crElapsed = 0]
        w2 == IF HasPhysics(w)
              THEN [w1 EXCEPT !.velocity = Zero2, !.forces = Zero2]
              ELSE w1
    IN IF HasCrashedEffect(w) THEN [w2 EXCEPT !.crashedFx = TRUE] ELSE w2

CrashedExit(w) ==
    IF HasCrashedEffect(w) THEN [w EXCEPT !.crashedFx = FALSE] ELSE w

Enter(w, s) ==
    CASE s = "RIDING" -> RidingEnter(w)
      [] s = "CARRYING" -> CarryingEnter(w)
      [] s = "REMOUNTING" -> RemountingEnter(w)
      [] s = "CRASHED" -> CrashedEnter(w)

Exit(w, s) ==
    CASE s = "RIDING" -> RidingExit(w)
      [] s = "CARRYING" -> CarryingExit(w)
      [] s = "REMOUNTING" -> RemountingExit(w)
      [] s = "CRASHED" -> CrashedExit(w)

----------------------------------------------------------------------------
(* StateMachineComponent.change_state *)

\* variant: the newest entry is evicted instead of the oldest
AppendHistoryDropsNewest(h, t) ==
    LET h1 == Append(h, t)
    IN IF Len(h1) > MaxHistorySize THEN SubSeq(h1, 1, MaxHistorySize) ELSE h1

\* self._history.append(...); if len > max_history_size: pop(0)
AppendHistory(h, t) ==
    LET h1 == Append(h, t)
    IN IF Len(h1) > MaxHistorySize THEN Tail(h1) ELSE h1

\* one entry of the observer log for a change_state call and its return value
LogEntry(w, t, force, ok) ==
    [from |-> w.current, to |-> t, force |-> force, ok |-> ok]

\* variant: the old state is left before the request is checked
RefuseAfterExit(w, t, force) ==
    LET w1 == IF w.current # None THEN Exit(w, w.current) ELSE w
    IN [w1 EXCEPT !.log = Append(w.log, LogEntry(w, t, force, FALSE))]

\* return False, after the message is printed
Refuse(w, t, force) ==
    [w EXCEPT !.log = Append(w.log, LogEntry(w, t, force, FALSE))]

\* observer: state s has just received enter / exit
Entered(w, s) ==
    [w EXCEPT !.alternates = @ /\ w.active = {}, !.active = @ \cup {s}]
Exited(w, s) ==
    [w EXCEPT !.alternates = @ /\ s \in w.active, !.active = @ \ {s}]

\* variant: the old state is not told that it is left
TransitionWithoutExit(w, t, force) ==
    LET w2 == [w EXCEPT !.current = t]
        w3 == Entered(Enter(w2, t), t)
        w4 == IF KeepHistory(w)
              THEN [w3 EXCEPT !.history = AppendHistory(w3.history, t)]
              ELSE w3
    IN [w4 EXCEPT !.sinceEntry = 0,
                  !.log = Append(w.log, LogEntry(w, t, force, TRUE))]

Transition(w, t, force) ==
    LET w1 == IF w.current # None THEN Exited(Exit(w, w.current), w.current) ELSE w
        w2 == [w1 EXCEPT !.current = t]
        w3 == Entered(Enter(w2, t), t)
        w4 == IF KeepHistory(w)
              THEN [w3 EXCEPT !.history = AppendHistory(w3.history, t)]
              ELSE w3
    IN [w4 EXCEPT !.sinceEntry = 0,
                  !.log = Append(w.log, LogEntry(w, t, force, TRUE))]

\* variant: can_transition_to is not consulted
ChangeStateUnchecked(w, t, force) ==
    IF t \notin w.states THEN Refuse(w, t, force) ELSE Transition(w, t, force)

ChangeState(w, t, force) ==
    IF t \notin w.states THEN Refuse(w, t, force)
    ELSE IF w.current # None /\ ~force /\ ~CanTransitionTo(w.current, t)
         THEN Refuse(w, t, force)
         ELSE Transition(w, t, force)

----------------------------------------------------------------------------
(* systems/cyclist_states.py: update and handle_input *)

RidingUpdate(w, dt) == w
CarryingUpdate(w, dt) == w

RemountingUpdate(w, dt) ==
    LET w1 == [w EXCEPT !.remElapsed = @ + dt]
    IN IF w1.remElapsed >= RemountDuration /\ HasStateMachineAttr(w)
       THEN ChangeState(w1, "RIDING", FALSE)
       ELSE w1

\* variant: recovery asks for RIDING directly
CrashedUpdateToRiding(w, dt) ==
    LET w1 == [w EXCEPT !.crElapsed = @ + dt]
    IN IF w1.crElapsed >= RecoveryDuration /\ w.owner \in Cyclists
       THEN ChangeState(w1, "RIDING", FALSE)
       ELSE w1

CrashedUpdate(w, dt) ==
    LET w1 == [w EXCEPT !.crElapsed = @ + dt]
    IN IF w1.crElapsed >= RecoveryDuration /\ HasStateMachineAttr(w)
       THEN ChangeState(w1, "REMOUNTING", FALSE)
       ELSE w1

StateUpdate(w, s, dt) ==
    CASE s = "RIDING" -> RidingUpdate(w, dt)
      [] s = "CARRYING" -> CarryingUpdate(w, dt)
      [] s = "REMOUNTING" -> RemountingUpdate(w, dt)
      [] s = "CRASHED" -> CrashedUpdate(w, dt)

\* variant: every event goes to the state that is current when it is read
RECURSIVE RidingHandleInputFollowsState(_, _)
RidingHandleInputFollowsState(w, events) ==
    IF events = <<>> THEN w
    ELSE LET target == IF w.current = "RIDING" THEN "CARRYING" ELSE "REMOUNTING"
             w1 == IF Head(events) = "C" /\ w.owner \in {"player", "rider"}
                      /\ w.current \in {"RIDING", "CARRYING"}
                   THEN ChangeState(w, target, FALSE)
                   ELSE w
         IN RidingHandleInputFollowsState(w1, Tail(events))

\* for event in events: K_c key-down asks for CARRYING.  The loop runs in the
\* RidingState object for the whole list, also after the state has changed.
RECURSIVE RidingHandleInput(_, _)
RidingHandleInput(w, events) ==
    IF events = <<>> THEN w
    ELSE LET w1 == IF Head(events) = "C" /\ HasStateMachineAttr(w)
                   THEN ChangeState(w, "CARRYING", FALSE)
                   ELSE w
         IN RidingHandleInput(w1, Tail(events))

RECURSIVE CarryingHandleInput(_, _)
CarryingHandleInput(w, events) ==
    IF events = <<>> THEN w
    ELSE LET w1 == IF Head(events) = "C" /\ HasStateMachineAttr(w)
                   THEN ChangeState(w, "REMOUNTING", FALSE)
                   ELSE w
         IN CarryingHandleInput(w1, Tail(events))

RemountingHandleInput(w, events) == w
CrashedHandleInput(w, events) == w

StateHandleInput(w, s, events) ==
    CASE s = "RIDING" -> RidingHandleInput(w, events)
      [] s = "CARRYING" -> CarryingHandleInput(w, events)
      [] s = "REMOUNTING" -> RemountingHandleInput(w, events)
      [] s = "CRASHED" -> CrashedHandleInput(w, events)

\* StateMachineComponent.update
SmUpdate(w, dt) ==
    IF w.current # None
    THEN LET w1 == StateUpdate([w EXCEPT !.sinceEntry = @ + dt], w.current, dt)
         IN [w1 EXCEPT !.transitionTime = @ + dt]
    ELSE w

\* StateMachineComponent.handle_events
SmHandleEvents(w, events) ==
    IF w.current # None THEN StateHandleInput(w, w.current, events) ELSE w

\* CommandInputComponent.set_events
SetEvents(w, events) == [w EXCEPT !.lastEvents = events]

\* CyclistWithStates.trigger_crash
TriggerCrash(w) == ChangeState(w, "CRASHED", FALSE)

----------------------------------------------------------------------------
(* PhysicsComponent *)

\* PhysicsComponent.apply_force
ApplyForce(w, f) == [w EXCEPT !.forces = VAdd(w.forces, f)]

\* PhysicsComponent.get_speed, in 1/VelScale px/s
GetSpeed(w) == Length(w.velocity)

\* velocity.normalize() * magnitude: the length and both components are
\* rounded to nearest, as the float operations round them
Scaled(v, magnitude) ==
    LET len == RoundSqrt(v[1] * v[1] + v[2] * v[2])
    IN <<DivR(v[1] * magnitude, len), DivR(v[2] * magnitude, len)>>

\* results of an update are kept on the whole-px/s grid
OnGrid(v) == <<VelScale * DivR(v[1], VelScale), VelScale * DivR(v[2], VelScale)>>

\* variant: update skips step 5
NoClamp(v, top) == v
\* step 5 of PhysicsComponent.update: limit the speed to max_speed
ClampSpeed(v, top) ==
    IF v[1] * v[1] + v[2] * v[2] > top * top THEN Scaled(v, top) ELSE v

\* Vector2.__truediv__ refuses a zero scalar
DividesByZero(w) == w.mass = 0
Raise(w, error) == [w EXCEPT !.raised = error]

\* PhysicsComponent.apply_impulse: velocity += impulse / mass
ApplyImpulse(w, j) ==
    IF DividesByZero(w) THEN Raise(w, "ValueError")
    ELSE [w EXCEPT !.velocity = VAdd(w.velocity, <<DivR(j[1] * VelScale, w.mass),
                                                   DivR(j[2] * VelScale, w.mass)>>)]

\* PhysicsComponent.set_velocity
SetVelocity(w, v) == [w EXCEPT !.velocity = v]

\* variant: update forgets step 7
KeepForces(w) == w
\* step 7 of PhysicsComponent.update
ResetForces(w) == [w EXCEPT !.forces = Zero2]

\* PhysicsComponent.update on a component whose init() found the transform,
\* steps 1 and 3 to 7 (use_gravity is False); step 1 raises when the mass
\* is zero and nothing has changed by then
PhysicsUpdate(w, dt) ==
    IF DividesByZero(w) THEN Raise(w, "ValueError") ELSE
    LET dv == <<DivR(w.forces[1] * dt * VelScale, w.mass * 10),
                DivR(w.forces[2] * dt * VelScale, w.mass * 10)>>
        v1 == VAdd(w.velocity, dv)
        drag == DragFactor(dt)
        v2 == <<DivR(v1[1] * drag, 10000), DivR(v1[2] * drag, 10000)>>
        v3 == ClampSpeed(v2, w.maxSpeed * VelScale)
    IN ResetForces([w EXCEPT !.velocity = OnGrid(v3)])

----------------------------------------------------------------------------
(* patterns/commands/movement_commands.py *)

AccelerateExecute(w, dt) ==
    LET fwd == ForwardVector(w.rotation)
    IN ApplyForce(w, <<DivR(fwd[1] * AccelerationForce, 100),
                       DivR(fwd[2] * AccelerationForce, 100)>>)

BrakeExecute(w, dt) ==
    IF GetSpeed(w) > BrakeMinSpeed * VelScale
    THEN LET b == Scaled(w.velocity, BrakeForce)
         IN ApplyForce(w, <<-b[1], -b[2]>>)
    ELSE w

\* turn_speed_slow + (turn_speed_fast - turn_speed_slow) * min(speed / threshold, 1)
TurnSpeed(w) ==
    TurnSpeedSlow
    + DivR((TurnSpeedFast - TurnSpeedSlow) * Min(GetSpeed(w), SpeedThreshold * VelScale),
           SpeedThreshold * VelScale)

\* TransformComponent.rotate
Rotate(w, angle) == [w EXCEPT !.rotation = NormalizeAngle(w.rotation + angle)]

TurnLeftExecute(w, dt) == Rotate(w, -((TurnSpeed(w) * dt) \div 10))
TurnRightExecute(w, dt) == Rotate(w, (TurnSpeed(w) * dt) \div 10)

\* forward * (1200.0 * boost_multiplier), boost_multiplier 1.5
SprintExecute(w, dt) ==
    LET fwd == ForwardVector(w.rotation)
        boost == (SprintForce * 3) \div 2
    IN ApplyForce(w, <<DivR(fwd[1] * boost, 100), DivR(fwd[2] * boost, 100)>>)

\* CommandInputHandler.handle_input: the commands of this frame, highest
\* priority first (Sprint 20, Brake 15, Accelerate 10, turns 5)
ActiveCommands(events, held) ==
    SelectSeq(events, LAMBDA e : e = "SPACE")
    \o (IF "DOWN" \in held THEN <<"DOWN">> ELSE <<>>)
    \o (IF "UP" \in held THEN <<"UP">> ELSE <<>>)
    \o (IF "LEFT" \in held THEN <<"LEFT">> ELSE <<>>)
    \o (IF "RIGHT" \in held THEN <<"RIGHT">> ELSE <<>>)

Execute(w, c, dt) ==
    CASE c = "SPACE" -> SprintExecute(w, dt)
      [] c = "DOWN" -> BrakeExecute(w, dt)
      [] c = "UP" -> AccelerateExecute(w, dt)
      [] c = "LEFT" -> TurnLeftExecute(w, dt)
      [] c = "RIGHT" -> TurnRightExecute(w, dt)

RECURSIVE ExecuteAll(_, _, _)
ExecuteAll(w, commands, dt) ==
    IF commands = <<>> THEN w
    ELSE ExecuteAll(Execute(w, Head(commands), dt), Tail(commands), dt)

\* CommandInputComponent.update
CommandInputUpdate(w, dt, held) ==
    LET w1 == ExecuteAll(w, ActiveCommands(w.lastEvents, held), dt)
    IN [w1 EXCEPT !.lastEvents = <<>>]

\* Entity.update: the components in the order they were attached
\* (Transform, Physics, CommandInput, StateMachine for the cyclist)
EntityUpdate(w, dt, held) ==
    LET w1 == IF HasPhysics(w) THEN PhysicsUpdate(w, dt) ELSE w
        w2 == IF HasCommandInput(w) THEN CommandInputUpdate(w1, dt, held) ELSE w1
    IN SmUpdate(w2, dt)

----------------------------------------------------------------------------
(* CommandInputHandler and CommandInputComponent with the hybrid profile.  *)
(* A command is known by the key it is bound to.                           *)

\* create_hybrid_profile: the held keys in the order of key_bindings (the
\* arrow keys; W, S, A and D are bound to the same commands after them)
KeyToCommand == <<"UP", "DOWN", "LEFT", "RIGHT", "W", "S">>
\* create_hybrid_profile: event_bindings
EventToCommand == {"SPACE", "LSHIFT"}

\* ICommand.priority of the command a key is bound to
Priority(key) ==
    CASE key \in {"SPACE", "LSHIFT"} -> 20
      [] key \in {"DOWN", "S"} -> 15
      [] key \in {"UP", "W"} -> 10
      [] key \in {"LEFT", "RIGHT"} -> 5

\* ICommand.can_execute: Brake asks for the physics, the others for the
\* physics and the transform
CanExecute(key, has) ==
    IF key \in {"DOWN", "S"} THEN "Physics" \in has
    ELSE {"Physics", "Transform"} \subseteq has

\* variant: the commands stay in the order they were collected
Unsorted(collected) == collected
\* list.sort(key=priority, reverse=True): stable, highest priority first
RECURSIVE SortByPriority(_)
SortByPriority(collected) ==
    IF collected = <<>> THEN <<>>
    ELSE LET n == Len(collected)
             sorted == SortByPriority(SubSeq(collected, 1, n - 1))
             x == collected[n]
             before == Cardinality({i \in DOMAIN sorted : Priority(sorted[i]) >= Priority(x)})
         IN SubSeq(sorted, 1, before) \o <<x>> \o SubSeq(sorted, before + 1, Len(sorted))

\* CommandInputHandler.handle_input: KEYDOWN events with a binding, then
\* the pressed keys with a binding that no event has processed, sorted
HandleInput(keyDowns, pressed) ==
    LET fromEvents == SelectSeq(keyDowns, LAMBDA k : k \in EventToCommand)
        processed == {fromEvents[i] : i \in DOMAIN fromEvents}
        fromKeys == SelectSeq(KeyToCommand, LAMBDA k : k \in pressed /\ k \notin processed)
    IN SortByPriority(fromEvents \o fromKeys)

\* CommandInputComponent.__init__ and init() on an entity with components has
NewDispatch(has) == [has |-> has, enabled |-> TRUE, returned |-> <<>>, executed |-> <<>>]

\* CommandInputComponent.update after set_events(keyDowns)
DispatchUpdate(d, keyDowns, pressed) ==
    IF ~d.enabled THEN [d EXCEPT !.returned = <<>>, !.executed = <<>>]
    ELSE LET commands == HandleInput(keyDowns, pressed)
         IN [d EXCEPT !.returned = commands,
                      !.executed = SelectSeq(commands, LAMBDA k : CanExecute(k, d.has))]

----------------------------------------------------------------------------
(* TransformComponent: rotation in mrad, degrees whole.                    *)

\* TransformComponent.__init__ on an Entity at the origin
NewTransform == [position |-> Zero2, ownerPosition |-> Zero2, ownerRotation |-> 0, calls |-> 0]

\* math.radians
Radians(degrees) == DivR(degrees * Pi, 180)

\* math.atan of a ratio in [0, 1] given in hundredths, in mrad
\* (pi/4 t + 0.273 t (1 - t))
AtanUnit(t) == DivR(Pi * t, 400) + DivR(273 * t * (100 - t), 10000)

\* Vector2.angle: math.atan2(y, x) of a vector that is not zero
Angle(v) ==
    LET ax == Abs(v[1])
        ay == Abs(v[2])
        first == IF ay <= ax THEN AtanUnit(DivR(100 * ay, ax))
                 ELSE Pi \div 2 - AtanUnit(DivR(100 * ax, ay))
        upper == IF v[1] >= 0 THEN first ELSE Pi - first
    IN IF v[2] >= 0 THEN upper ELSE -upper

\* TransformComponent.rotation setter
SetRotation(w, value) == [w EXCEPT !.rotation = NormalizeAngle(value)]

\* TransformComponent.rotation_degrees setter
SetRotationDegrees(w, degrees) == [w EXCEPT !.rotation = Radians(degrees)]

\* TransformComponent.rotate_degrees
RotateDegrees(w, degrees) == Rotate(w, Radians(degrees))

\* TransformComponent.look_in_direction
LookInDirection(w, direction) ==
    IF direction # Zero2 THEN [w EXCEPT !.rotation = Angle(direction)] ELSE w

\* TransformComponent.look_at
LookAt(w, target) ==
    LookInDirection(w, <<target[1] - w.transform.position[1], target[2] - w.transform.position[2]>>)

\* TransformComponent.translate
Translate(w, delta) == [w EXCEPT !.transform.position = VAdd(@, delta)]

\* TransformComponent.update: the owner's mirror is written
TransformUpdate(w) ==
    [w EXCEPT !.transform.ownerPosition = w.transform.position,
              !.transform.ownerRotation = w.rotation]

\* step 6 of PhysicsComponent.update: the transform is moved by velocity * dt
Displace(w, dt) == Translate(w, <<DivR(w.velocity[1] * dt, 10), DivR(w.velocity[2] * dt, 10)>>)

\* Entity.update of the player's cyclist: Transform, Physics, CommandInput
\* and StateMachine in the order _setup_components attached them
CyclistUpdate(w, dt, held) ==
    LET w0 == TransformUpdate(w)
        w1 == PhysicsUpdate(w0, dt)
        w2 == IF w1.raised = None THEN Displace(w1, dt) ELSE w1
        w3 == CommandInputUpdate(w2, dt, held)
    IN SmUpdate(w3, dt)

----------------------------------------------------------------------------
(* BalanceComponent.  Balance and instability are counted in hundredths,   *)
(* grip levels and multipliers in hundredths, camber in degrees, speed in  *)
(* px/s, stamina in percent.                                               *)

Max(a, b) == IF a > b THEN a ELSE b

\* BalanceComponent.__init__ and init() on an entity with Transform and Physics
NewBalance ==
    [current |-> 100 * BalanceMax, instability |-> 0, previousRotation |-> 0, calls |-> 0]

\* what one frame offers to the component: the terrain under the entity
\* (None or its camber and grip level), the entity's rotation and speed, and
\* the stamina percentage (None without a StaminaComponent)
Context(tile, rot, speed, staminaPct) ==
    [terrain |-> tile, rotation |-> rot, speed |-> speed, stamina |-> staminaPct]
Tile(camber, grip) == [present |-> TRUE, camber |-> camber, grip |-> grip]
\* get_terrain_at_position returned None, or there is no terrain manager
NoTile == [present |-> FALSE, camber |-> 0, grip |-> 0]
StaminaAt(pct) == [present |-> TRUE, pct |-> pct]
\* the entity has no StaminaComponent
NoStamina == [present |-> FALSE, pct |-> 0]

\* _get_current_terrain_data asks TerrainManager.get_instance() for the
\* manager.  The source holds the callers of that accessor only; it is taken
\* as the specification describes it, a process-wide manager that may be absent.
GetCurrentTerrainData(ctx) == ctx.terrain

CamberInstability(ctx) ==
    IF GetCurrentTerrainData(ctx).present /\ GetCurrentTerrainData(ctx).camber # 0
    THEN Abs(GetCurrentTerrainData(ctx).camber) * BalanceCamberTenths * 10 ELSE 0

\* the rotation change is in mrad and the factor in tenths, which together
\* with the factor 100 of the code leaves hundredths
TurnInstability(b, ctx) ==
    LET change == Abs(ctx.rotation - b.previousRotation)
    IN IF change > 10
       THEN DivR(change * ctx.speed * BalanceSpeedTenths, CyclistMaxSpeed)
       ELSE 0

GripInstability(ctx) ==
    IF GetCurrentTerrainData(ctx).present
    THEN (100 - GetCurrentTerrainData(ctx).grip) * BalanceGripFactor ELSE 0

ExhaustionInstability(ctx) ==
    IF ctx.stamina.present /\ ctx.stamina.pct < 30
    THEN DivR((30 - ctx.stamina.pct) * BalanceLowStaminaTenths * 10, 30) ELSE 0

\* variant: the frame's contributions are added to the stored instability
AddedToStored(b, total) == b.instability + total
\* self.instability = total_instability
FreshInstability(b, total) == total

\* BalanceComponent._calculate_instability
CalculateInstability(b, ctx) ==
    LET total == CamberInstability(ctx) + TurnInstability(b, ctx)
                 + GripInstability(ctx) + ExhaustionInstability(ctx)
    IN [b EXCEPT !.instability = FreshInstability(b, total),
                 !.previousRotation = ctx.rotation]

\* BalanceComponent._recover_balance
RecoverBalance(b, ctx, dt) ==
    LET tile == GetCurrentTerrainData(ctx)
        multiplier == IF ~tile.present THEN 100
                      ELSE IF Abs(tile.camber) < 2
                           THEN DivR(tile.grip * 150, 100)
                           ELSE tile.grip
        amount == DivR(100 * BalanceRecoveryRate * multiplier * dt, 1000)
    IN [b EXCEPT !.current = Min(100 * BalanceMax, b.current + amount)]

\* BalanceComponent.update for an enabled component
BalanceUpdate(b, ctx, dt) ==
    LET b1 == CalculateInstability(b, ctx)
        b2 == IF b1.instability > 0
              THEN [b1 EXCEPT !.current = Max(0, b1.current - DivR(b1.instability * dt, 10))]
              ELSE b1
        b3 == RecoverBalance(b2, ctx, dt)
    IN [b3 EXCEPT !.instability = Max(0, b3.instability - 100 * dt)]

\* BalanceComponent.apply_imbalance, amount in whole units of balance
ApplyImbalance(b, amount) ==
    [b EXCEPT !.current = Max(0, b.current - 100 * amount),
              !.instability = b.instability + 50 * amount]

\* BalanceComponent.reset_balance
ResetBalance(b) == [b EXCEPT !.current = 100 * BalanceMax, !.instability = 0]

\* variant: the guaranteed crash starts strictly below the threshold
StrictlyBelow(x, threshold) == x < threshold
\* self.current_balance <= threshold
AtOrBelow(x, threshold) == x <= threshold

\* BalanceComponent.should_crash: the values a call can return.  Between the
\* thresholds it returns random.random() < probability, which can be True
\* only when the probability is positive.
ShouldCrash(b) ==
    IF AtOrBelow(b.current, 100 * BalanceCrashThreshold) THEN {TRUE}
    ELSE IF AtOrBelow(b.current, 100 * BalanceCriticalThreshold)
         THEN IF b.current < 100 * BalanceCriticalThreshold THEN {TRUE, FALSE}
                                                            ELSE {FALSE}
         ELSE {FALSE}

----------------------------------------------------------------------------
(* StaminaComponent.  Stamina and fatigue are counted in hundredths, the   *)
(* terrain's drain multiplier in hundredths, slopes in degrees, speed in   *)
(* px/s; the factors of the drain are carried in thousandths.              *)

\* StaminaComponent.__init__ and init() on an entity with Transform and Physics
NewStamina ==
    [current |-> 100 * StaminaMax, fatigue |-> 0, zone |-> "OPTIMAL",
     recovering |-> FALSE, calls |-> 0]

\* what one frame offers to the component: the terrain under the entity and
\* the entity's speed
StaminaContext(tile, speed) == [terrain |-> tile, speed |-> speed]
DrainTile(drain, slope) == [present |-> TRUE, drain |-> drain, slope |-> slope]
\* no terrain under the entity
NoDrainTile == [present |-> FALSE, drain |-> 100, slope |-> 0]

\* StaminaComponent.drain, amount in hundredths
Drain(s, amount) == [s EXCEPT !.current = Max(0, s.current - amount)]

\* StaminaComponent._calculate_slope_multiplier, in thousandths
CalculateSlopeMultiplier(tile) ==
    IF ~tile.present \/ tile.slope = 0 THEN 1000
    ELSE IF tile.slope > 0
         THEN 1000 + DivR(Abs(tile.slope) * StaminaSlopeTenths * 100, 45)
         ELSE Max(500, 1000 - DivR(Abs(tile.slope) * 500, 45))

\* StaminaComponent._drain_stamina
DrainStamina(s, ctx, dt) ==
    LET tile == GetCurrentTerrainData(ctx)
        velocityFactor == 1000 + ctx.speed * StaminaVelocityPerMille
        terrainMultiplier == IF tile.present THEN tile.drain ELSE 100
        perSecond == DivR(StaminaBaseDrainRate * velocityFactor * terrainMultiplier, 1000)
        onSlope == DivR(perSecond * CalculateSlopeMultiplier(tile), 1000)
        tired == DivR(onSlope * (2 * 100 * FatigueMax + s.fatigue), 2 * 100 * FatigueMax)
    IN Drain(s, DivR(tired * dt, 10))

\* StaminaComponent._recover
Recover(s, dt) ==
    LET penalty == 1000 * 100 * FatigueMax - s.fatigue * (10 - StaminaFatiguePenaltyTenths) * 100
        amount == DivR(StaminaRecoveryRate * dt * penalty, 100 * 100 * FatigueMax)
    IN [s EXCEPT !.current = Min(100 * StaminaMax, s.current + amount),
                 !.fatigue = Max(0, s.fatigue - 10 * FatigueRecoveryInCarrying * dt)]

\* StaminaComponent._accumulate_fatigue
AccumulateFatigue(s, dt) ==
    [s EXCEPT !.fatigue = Min(100 * FatigueMax, s.fatigue + FatigueAccumulationTenths * dt)]

\* StaminaComponent.get_percentage, in hundredths of a percent
GetPercentage(s) == DivR(s.current * 100, StaminaMax)

\* variant: a threshold belongs to the zone below it
Above(x, threshold) == x > threshold
\* percentage >= threshold
AtLeast(x, threshold) == x >= threshold

\* the zone of a percentage, as _update_performance_zone chooses it
ZoneOf(pct) ==
    IF AtLeast(pct, 100 * StaminaOptimalThreshold) THEN "OPTIMAL"
    ELSE IF AtLeast(pct, 100 * StaminaModerateThreshold) THEN "MODERATE"
    ELSE IF AtLeast(pct, 100 * StaminaCriticalThreshold) THEN "CRITICAL"
    ELSE "EXHAUSTED"

\* StaminaComponent._update_performance_zone
UpdatePerformanceZone(s) == [s EXCEPT !.zone = ZoneOf(GetPercentage(s))]

\* StaminaComponent.update for an enabled component
StaminaUpdate(s, ctx, dt) ==
    LET s1 == IF s.recovering THEN Recover(s, dt) ELSE DrainStamina(s, ctx, dt)
        s2 == UpdatePerformanceZone(s1)
    IN IF ~s2.recovering /\ s2.current < 100 * StaminaMax
       THEN AccumulateFatigue(s2, dt) ELSE s2

\* StaminaComponent.set_recovering
SetRecovering(s, isRecovering) == [s EXCEPT !.recovering = isRecovering]

\* StaminaComponent.apply_fatigue, amount in hundredths
ApplyFatigue(s, amount) == [s EXCEPT !.fatigue = Min(100 * FatigueMax, s.fatigue + amount)]

----------------------------------------------------------------------------
(* TerrainManager and TerrainPhysicsComponent.  Positions are whole        *)
(* pixels, max speeds hundredths of px/s, speed multipliers hundredths,    *)
(* drags and drag modifiers thousandths.                                   *)

\* TerrainFactory.create: the data of a terrain type
TerrainFactory(type) ==
    CASE type = "ASPHALT" -> [type |-> type, speedMultiplier |-> 100, dragModifier |-> 0]
      [] type = "GRASS" -> [type |-> type, speedMultiplier |-> 70, dragModifier |-> 15]
      [] type = "SAND" -> [type |-> type, speedMultiplier |-> 50, dragModifier |-> 30]
      [] type = "CONCRETE" -> [type |-> type, speedMultiplier |-> 110, dragModifier |-> -5]

\* the grids a manager is given: rows of terrain types, row y first
SandGrid == <<<<"SAND", "SAND">>, <<"SAND", "SAND">>>>
MixedGrid == <<<<"SAND", "GRASS">>, <<"CONCRETE", "SAND">>>>

GridHeight(grid) == Len(grid)
GridWidth(grid) == Len(grid[1])

\* a TerrainTile, or the None of a lookup outside the grid
TileAt(grid, gridX, gridY) ==
    [present |-> TRUE, gridX |-> gridX, gridY |-> gridY, type |-> grid[gridY + 1][gridX + 1]]
NoTerrainTile == [present |-> FALSE, gridX |-> 0, gridY |-> 0, type |-> "None"]

\* TerrainManager._is_valid_grid_position
IsValidGridPosition(grid, gridX, gridY) ==
    0 <= gridX /\ gridX < GridWidth(grid) /\ 0 <= gridY /\ gridY < GridHeight(grid)

\* TerrainManager.get_tile_at_grid
GetTileAtGrid(grid, gridX, gridY) ==
    IF ~IsValidGridPosition(grid, gridX, gridY) THEN NoTerrainTile
    ELSE TileAt(grid, gridX, gridY)

\* variant: the division is cut towards zero
TruncDiv(a, b) == IF a >= 0 THEN a \div b ELSE -((-a) \div b)
\* int(a // b): the division is rounded down
FloorDiv(a, b) == a \div b

\* TerrainManager.get_terrain_at_position
GetTerrainAtPosition(grid, position) ==
    GetTileAtGrid(grid, FloorDiv(position[1], TileSize), FloorDiv(position[2], TileSize))

\* TerrainManager.get_terrain_data_at_position: the type stands for the data
GetTerrainDataAtPosition(grid, position) == GetTerrainAtPosition(grid, position).type

\* TerrainManager(2, 2, 32) with set_terrain_from_grid, and a
\* TerrainPhysicsComponent(owner, manager, 450.0, base_drag) initialised on an
\* entity whose PhysicsComponent was built with max_speed 450.0 and drag 0.985
NewTerrainWith(baseDrag) ==
    [grid |-> SandGrid, position |-> <<0, 0>>,
     baseMaxSpeed |-> CyclistMaxSpeed, baseDrag |-> baseDrag, current |-> "None",
     maxSpeed |-> 100 * CyclistMaxSpeed, drag |-> CyclistDragPerMille,
     found |-> NoTerrainTile, calls |-> 0]
NewTerrain == NewTerrainWith(CyclistDragPerMille)

\* variant: the new drag is written as computed
Unclamped(x, low, high) == x
\* max(low, min(high, x))
Clamped(x, low, high) == Max(low, Min(high, x))

\* TerrainPhysicsComponent._apply_terrain_effects
ApplyTerrainEffects(t, type) ==
    LET data == TerrainFactory(type)
    IN [t EXCEPT !.maxSpeed = t.baseMaxSpeed * data.speedMultiplier,
                 !.drag = Clamped(t.baseDrag - data.dragModifier, 0, 1000)]

\* variant: every sampled terrain counts as new
AlwaysDiffers(a, b) == TRUE
\* terrain_data != self._current_terrain
Differs(a, b) == a # b

\* TerrainPhysicsComponent.update on an entity with Transform and Physics
TerrainPhysicsUpdate(t) ==
    LET type == GetTerrainDataAtPosition(t.grid, t.position)
    IN IF type # "None" /\ Differs(type, t.current)
       THEN [ApplyTerrainEffects(t, type) EXCEPT !.current = type]
       ELSE t

\* TerrainPhysicsComponent.set_base_max_speed
SetBaseMaxSpeed(t, speed) ==
    LET t1 == [t EXCEPT !.baseMaxSpeed = speed]
    IN IF t1.current # "None" THEN ApplyTerrainEffects(t1, t1.current) ELSE t1

\* TerrainPhysicsComponent.set_base_drag
SetBaseDrag(t, newDrag) ==
    LET t1 == [t EXCEPT !.baseDrag = newDrag]
    IN IF t1.current # "None" THEN ApplyTerrainEffects(t1, t1.current) ELSE t1

----------------------------------------------------------------------------
(* TerrainMapLoader.  A terrain type is the value auto() gave the member   *)
(* of the TerrainType enumeration, its name the member's name; a           *)
(* dictionary is the set of its keys with the values under them.           *)

\* the members of TerrainType in the order of their definition
TerrainTypeNames == <<"ASPHALT", "GRASS", "SAND", "MUD", "GRAVEL", "DIRT", "CONCRETE">>

\* TerrainManager(width, height, tile_size) after set_terrain_from_grid(grid)
Manager(width, height, tileSize, grid) ==
    [width |-> width, height |-> height, tileSize |-> tileSize, grid |-> grid]
DefaultManager == Manager(1, 1, TileSize, <<<<2>>>>)

\* variant: every cell is saved as the fallback
FallbackName(m, gridX, gridY) == "GRASS"
\* tile.terrain_data.terrain_type.name of the tile at a cell, "GRASS" for a
\* cell get_tile_at_grid has no tile for
SavedName(m, gridX, gridY) ==
    IF 0 <= gridX /\ gridX < m.width /\ 0 <= gridY /\ gridY < m.height
    THEN TerrainTypeNames[m.grid[gridY + 1][gridX + 1]]
    ELSE "GRASS"

\* the dictionary TerrainMapLoader.save_to_file dumps
SaveToFile(m) ==
    [has |-> {"name", "width", "height", "tile_size", "terrain_grid"},
     width |-> m.width, height |-> m.height, tileSize |-> m.tileSize,
     grid |-> [gridY \in 1..m.height |-> [gridX \in 1..m.width |-> SavedName(m, gridX - 1, gridY - 1)]]]

\* variant: an unknown name becomes the default terrain
DefaultsToGrass(name) == TRUE
\* TerrainType[name] finds a member
IsTerrainName(name) == \E i \in DOMAIN TerrainTypeNames : TerrainTypeNames[i] = name

\* TerrainType[name]
TerrainTypeOf(name) ==
    IF \E i \in DOMAIN TerrainTypeNames : TerrainTypeNames[i] = name
    THEN CHOOSE i \in DOMAIN TerrainTypeNames : TerrainTypeNames[i] = name
    ELSE 2

\* what a load leaves: the manager it returned, or the error it raised
Loaded(m) == [present |-> TRUE, manager |-> m, error |-> None]
Failed(error) == [present |-> FALSE, manager |-> Manager(0, 0, 0, <<>>), error |-> error]

\* TerrainMapLoader.load_from_dict
LoadFromDict(data) ==
    IF ~({"width", "height", "terrain_grid"} \subseteq data.has) THEN Failed("KeyError")
    ELSE IF Len(data.grid) # data.height THEN Failed("ValueError")
    ELSE IF \E gridY \in DOMAIN data.grid :
               \/ Len(data.grid[gridY]) # data.width
               \/ \E gridX \in DOMAIN data.grid[gridY] : ~IsTerrainName(data.grid[gridY][gridX])
         THEN Failed("ValueError")
    ELSE Loaded(Manager(data.width, data.height,
                        IF "tile_size" \in data.has THEN data.tileSize ELSE TileSize,
                        [gridY \in DOMAIN data.grid |->
                            [gridX \in DOMAIN data.grid[gridY] |-> TerrainTypeOf(data.grid[gridY][gridX])]]))

\* a loader that holds manager m, before anything was saved or loaded
NewLoader(m) ==
    [manager |-> m, saved |-> FALSE, file |-> SaveToFile(Manager(0, 0, 0, <<>>)),
     data |-> SaveToFile(Manager(0, 0, 0, <<>>)), result |-> Failed(None)]

\* TerrainMapLoader.load_from_file
LoadFromFile(l) ==
    IF ~l.saved THEN [l EXCEPT !.result = Failed("FileNotFoundError")]
    ELSE [l EXCEPT !.data = l.file, !.result = LoadFromDict(l.file)]

----------------------------------------------------------------------------
(* The cache of TerrainFactory.  An instance is known by the number it got *)
(* when it was built; 0 stands for no instance.                            *)

FactoryTypeSet == {"ASPHALT", "SAND", "CONCRETE"}

\* the class before any create: an empty _terrain_registry
NewFactory ==
    [registry |-> [type \in FactoryTypeSet |-> 0], built |-> 0,
     first |-> [type \in FactoryTypeSet |-> 0],
     since |-> [type \in FactoryTypeSet |-> 0],
     earlier |-> 0,
     returned |-> [type |-> None, instance |-> 0, data |-> TerrainFactory("ASPHALT")],
     calls |-> 0]

\* variant: the registry is never consulted
NeverCached(f, type) == FALSE
\* terrain_type in cls._terrain_registry
InRegistry(f, type) == f.registry[type] # 0

\* TerrainFactory.create
FactoryCreate(f, type) ==
    LET hit == InRegistry(f, type)
        instance == IF hit THEN f.registry[type] ELSE f.built + 1
    IN [f EXCEPT !.registry[type] = instance,
                 !.built = IF hit THEN @ ELSE @ + 1,
                 !.returned = [type |-> type, instance |-> instance, data |-> TerrainFactory(type)]]

\* TerrainFactory.clear_cache
ClearCache(f) == [f EXCEPT !.registry = [type \in FactoryTypeSet |-> 0]]

----------------------------------------------------------------------------
(* EntityManager and its indexes.  Entities are known by number; a         *)
(* dictionary of lists is a function whose empty lists are the absent keys.*)

EntityIds == {1, 2}
TagSet == {"a", "b"}
EntityTypes == {"Entity", "Cyclist"}
\* type(entity)
TypeOf(e) == IF e = 1 THEN "Entity" ELSE "Cyclist"

Occurrences(list, e) == Cardinality({i \in DOMAIN list : list[i] = e})

\* list.remove(e) for a list that holds e: the first occurrence goes
RemoveFirst(list, e) ==
    LET at == CHOOSE i \in DOMAIN list : list[i] = e /\ \A j \in 1..(i - 1) : list[j] # e
    IN SubSeq(list, 1, at - 1) \o SubSeq(list, at + 1, Len(list))

\* EntityManager() and two entities, the second created with the tag "a"
NewIndexes ==
    [entities |-> <<>>, byId |-> {},
     byType |-> [type \in EntityTypes |-> <<>>],
     byTag |-> [tag \in TagSet |-> <<>>],
     tags |-> [e \in EntityIds |-> IF e = 2 THEN <<"a">> ELSE <<>>],
     toDestroy |-> [e \in EntityIds |-> FALSE],
     raised |-> None, calls |-> 0]

\* the tag loop of add_entity
RECURSIVE IndexTags(_, _, _)
IndexTags(m, e, rest) ==
    IF rest = <<>> THEN m
    ELSE IndexTags([m EXCEPT !.byTag[Head(rest)] = Append(@, e)], e, Tail(rest))

\* EntityManager.add_entity
IndexedAdd(m, e) ==
    IF e \in m.byId THEN [m EXCEPT !.raised = "ValueError"]
    ELSE IndexTags([m EXCEPT !.entities = Append(@, e),
                             !.byId = @ \cup {e},
                             !.byType[TypeOf(e)] = Append(@, e)],
                   e, m.tags[e])

\* the tag loop of remove_entity: list.remove raises ValueError when the
\* entity is not in the list of a tag it carries, and the loop and the
\* rest of remove_entity are abandoned
RECURSIVE UnindexTags(_, _, _)
UnindexTags(m, e, rest) ==
    IF rest = <<>> THEN m
    ELSE LET list == m.byTag[Head(rest)]
         IN IF list = <<>> THEN UnindexTags(m, e, Tail(rest))
            ELSE IF Occurrences(list, e) = 0 THEN [m EXCEPT !.raised = "ValueError"]
            ELSE UnindexTags([m EXCEPT !.byTag[Head(rest)] = RemoveFirst(list, e)], e, Tail(rest))

\* EntityManager.remove_entity, with entity.destroy() at its end
IndexedRemove(m, e) ==
    IF e \notin m.byId THEN m
    ELSE LET m1 == [m EXCEPT !.entities = RemoveFirst(@, e),
                             !.byId = @ \ {e},
                             !.byType[TypeOf(e)] = RemoveFirst(@, e)]
             m2 == UnindexTags(m1, e, m.tags[e])
         IN IF m2.raised # None THEN m2 ELSE [m2 EXCEPT !.toDestroy[e] = TRUE]

\* remove_entity for each entity of a list, until one raises
RECURSIVE RemoveEach(_, _)
RemoveEach(m, rest) ==
    IF rest = <<>> \/ m.raised # None THEN m
    ELSE RemoveEach(IndexedRemove(m, Head(rest)), Tail(rest))

\* EntityManager.update: the entities are updated, then those marked for
\* destruction are removed
IndexedUpdate(m) ==
    RemoveEach(m, SelectSeq(m.entities, LAMBDA e : m.toDestroy[e]))

\* EntityManager.clear
IndexedClear(m) ==
    LET m1 == RemoveEach(m, m.entities)
    IN IF m1.raised # None THEN m1
       ELSE [m1 EXCEPT !.entities = <<>>, !.byId = {},
                       !.byType = [type \in EntityTypes |-> <<>>],
                       !.byTag = [tag \in TagSet |-> <<>>]]

\* Entity.add_tag
AddTag(m, e, tag) ==
    IF Occurrences(m.tags[e], tag) = 0 THEN [m EXCEPT !.tags[e] = Append(@, tag)] ELSE m

\* Entity.remove_tag
RemoveTag(m, e, tag) ==
    IF Occurrences(m.tags[e], tag) > 0 THEN [m EXCEPT !.tags[e] = RemoveFirst(@, tag)] ELSE m

\* Entity.destroy
MarkDestroyed(m, e) == [m EXCEPT !.toDestroy[e] = TRUE]

----------------------------------------------------------------------------
(* Construction *)

\* a fresh StateMachineComponent on its owner, before any state is current
Fresh(o, registered) ==
    [owner |-> o, states |-> registered, current |-> None,
     remElapsed |-> 0, crElapsed |-> 0, transitionTime |-> 0, history |-> <<>>,
     maxSpeed |-> IF o \in Cyclists THEN CyclistMaxSpeed ELSE 0,
     velocity |-> Zero2, forces |-> Zero2, rotation |-> 0,
     lastEvents |-> <<>>, crashedFx |-> FALSE,
     mass |-> IF o \in Cyclists THEN CyclistMass ELSE 1, raised |-> None,
     components |-> <<>>, entityActive |-> TRUE, instances |-> 0, updated |-> <<>>,
     destroyCalls |-> <<>>,
     toDestroy |-> FALSE,
     managed |-> TRUE,
     balance |-> NewBalance,
     stamina |-> NewStamina,
     terrain |-> NewTerrain,
     loader |-> NewLoader(DefaultManager),
     factory |-> NewFactory,
     transform |-> NewTransform,
     dispatch |-> NewDispatch({}),
     indexes |-> NewIndexes,
     physicsCalls |-> 0,
     active |-> {}, alternates |-> TRUE,
     sinceEntry |-> 0, log |-> <<>>, exact |-> TRUE]

\* variant: the constructor does not request the initial state
NewCyclistWithoutInitialState(o) == Fresh(o, StateType)

\* CyclistWithStates.__init__: the four states are added, then
\* change_state(RIDING, force=True)
NewCyclist(o) == [ChangeState(Fresh(o, StateType), "RIDING", TRUE) EXCEPT !.log = <<>>]

\* a plain Entity that was given a StateMachineComponent and no state yet
NewEntity == Fresh("entity", {})

\* the observer's note of a step: the operation, the dt it was given and
\* whether any input command ran in it (for handle_events: whether the
\* batch held a toggle key-down; for the calls that name a component type:
\* that type; for the manager's calls: whether the entity was registered,
\* and for its update whether it was marked to_destroy as well)
Op(name, dt, input) == [op |-> name, dt |-> dt, input |-> input]

\* the step leaves the program in state w, having performed op
Becomes(w, op) ==
    /\ w.exact
    /\ owner' = w.owner
    /\ states' = w.states
    /\ current' = w.current
    /\ remElapsed' = w.remElapsed
    /\ crElapsed' = w.crElapsed
    /\ transitionTime' = w.transitionTime
    /\ history' = w.history
    /\ maxSpeed' = w.maxSpeed
    /\ velocity' = w.velocity
    /\ forces' = w.forces
    /\ rotation' = w.rotation
    /\ lastEvents' = w.lastEvents
    /\ crashedFx' = w.crashedFx
    /\ mass' = w.mass
    /\ raised' = w.raised
    /\ components' = w.components
    /\ entityActive' = w.entityActive
    /\ instances' = w.instances
    /\ updated' = w.updated
    /\ destroyCalls' = w.destroyCalls
    /\ toDestroy' = w.toDestroy
    /\ managed' = w.managed
    /\ balance' = w.balance
    /\ stamina' = w.stamina
    /\ terrain' = w.terrain
    /\ loader' = w.loader
    /\ factory' = w.factory
    /\ transform' = w.transform
    /\ dispatch' = w.dispatch
    /\ indexes' = w.indexes
    /\ physicsCalls' = w.physicsCalls
    /\ active' = w.active
    /\ alternates' = w.alternates
    /\ sinceEntry' = w.sinceEntry
    /\ log' = w.log
    /\ lastOp' = op

StartsAs(w) ==
    /\ owner = w.owner
    /\ states = w.states
    /\ current = w.current
    /\ remElapsed = w.remElapsed
    /\ crElapsed = w.crElapsed
    /\ transitionTime = w.transitionTime
    /\ history = w.history
    /\ maxSpeed = w.maxSpeed
    /\ velocity = w.velocity
    /\ forces = w.forces
    /\ rotation = w.rotation
    /\ lastEvents = w.lastEvents
    /\ crashedFx = w.crashedFx
    /\ mass = w.mass
    /\ raised = w.raised
    /\ components = w.components
    /\ entityActive = w.entityActive
    /\ instances = w.instances
    /\ updated = w.updated
    /\ destroyCalls = w.destroyCalls
    /\ toDestroy = w.toDestroy
    /\ managed = w.managed
    /\ balance = w.balance
    /\ stamina = w.stamina
    /\ terrain = w.terrain
    /\ loader = w.loader
    /\ factory = w.factory
    /\ transform = w.transform
    /\ dispatch = w.dispatch
    /\ indexes = w.indexes
    /\ physicsCalls = w.physicsCalls
    /\ active = w.active
    /\ alternates = w.alternates
    /\ sinceEntry = w.sinceEntry
    /\ log = <<>>
    /\ lastOp = Op("new", 0, FALSE)

Init ==
    \/ \E o \in Cyclists : StartsAs(NewCyclist(o))
    \/ StartsAs(NewEntity)

EventLists == UNION {[1..n -> Keys] : n \in 0..MaxEvents}
\* what pygame.event.get() hands over in one frame: at most one key-down
FrameEventLists == {<<>>} \cup {<<k>> : k \in Keys}
\* what pygame.key.get_pressed() reports: nothing, accelerate while turning
\* left, brake while turning right
HeldSets == {{}, {"UP", "LEFT"}, {"DOWN", "RIGHT"}}

----------------------------------------------------------------------------
(* Operations *)

\* the cap on the time the updates may accumulate
TimeBound == IF owner = "rider" THEN MaxTime ELSE MaxShortTime

\* StateMachineComponent.add_state for a type not yet registered
DoAddState(t) ==
    /\ owner = "entity"
    /\ t \notin states
    /\ Becomes([World EXCEPT !.states = states \cup {t}], Op("add_state", 0, FALSE))

\* StateMachineComponent.change_state(t, force)
DoChangeState(t, force) ==
    /\ t \in StateType
    /\ Becomes(ChangeState(World, t, force), Op("change_state", 0, FALSE))

\* CyclistWithStates.trigger_crash()
DoTriggerCrash ==
    /\ owner \in Cyclists
    /\ Becomes(TriggerCrash(World), Op("trigger_crash", 0, FALSE))

\* the batch holds a key-down of the toggle key K_c
HasToggle(events) == \E i \in DOMAIN events : events[i] = "C"

\* StateMachineComponent.handle_events(events)
DoHandleEvents(events) ==
    /\ current # None
    /\ Becomes(SmHandleEvents(World, events), Op("handle_events", 0, HasToggle(events)))

\* Entity.update(dt)
DoUpdate(dt) ==
    /\ owner # "player"
    /\ transitionTime + dt <= TimeBound
    /\ Becomes(EntityUpdate(World, dt, {}), Op("update", dt, FALSE))

\* one frame of the player's cyclist: the events go to the input component
\* (set_events) and to the machine (handle_events), then Entity.update(dt)
\* runs with the keys pygame.key.get_pressed() reports as held
DoFrame(events, dt, held) ==
    /\ owner = "player"
    /\ transitionTime + dt <= TimeBound
    /\ Becomes(EntityUpdate(SmHandleEvents(SetEvents(World, events), events), dt, held),
               Op("frame", dt, ActiveCommands(events, held) # <<>>))

Next ==
    \/ \E t \in StateType : DoAddState(t)
    \/ \E t \in StateType, force \in BOOLEAN : DoChangeState(t, force)
    \/ DoTriggerCrash
    \/ \E events \in EventLists : DoHandleEvents(events)
    \/ \E dt \in DtSet : DoUpdate(dt)
    \/ \E events \in FrameEventLists, dt \in DtSet, held \in HeldSets :
          DoFrame(events, dt, held)

Spec == Init /\ [][Next]_vars

----------------------------------------------------------------------------
(* Recovery: a computer-driven cyclist that is left alone while it is      *)
(* CRASHED or REMOUNTING.  Calls from outside the entity are made only     *)
(* while it is RIDING or CARRYING; the game loop keeps calling update,     *)
(* which is the fairness condition.                                        *)

\* Entity.update(dt) while the cyclist recovers
DoRecoveryUpdate(dt) ==
    /\ current \in {"CRASHED", "REMOUNTING"}
    /\ Becomes(EntityUpdate(World, dt, {}), Op("update", dt, FALSE))

RecoveryInit == StartsAs(NewCyclist("rider"))

\* calls from outside come while the cyclist rides or carries, early in the race
CallsAllowed == current \in {"RIDING", "CARRYING"} /\ transitionTime <= MaxShortTime

RecoveryNext ==
    \/ /\ CallsAllowed
       /\ \E t \in StateType, force \in BOOLEAN : DoChangeState(t, force)
    \/ /\ CallsAllowed
       /\ DoTriggerCrash
    \/ /\ CallsAllowed
       /\ \E events \in EventLists : DoHandleEvents(events)
    \/ /\ current \in {"RIDING", "CARRYING"}
       /\ \E dt \in DtSet : DoUpdate(dt)
    \/ \E dt \in DtSet : DoRecoveryUpdate(dt)

\* the cyclist is sitting out a crash or a remount
Recovering == current \in {"CRASHED", "REMOUNTING"}

\* a step of DoRecoveryUpdate, told by what it leaves behind
RecoveryUpdateStep == Recovering /\ lastOp'.op = "update"

\* Weak fairness of the recovery update, WF_vars(\E dt \in DtSet :
\* DoRecoveryUpdate(dt)), with its ENABLED written out: the update is
\* enabled exactly while the cyclist is Recovering.
RecoveryFairness == []<>(~Recovering) \/ []<><<RecoveryUpdateStep>>_vars

RecoverySpec ==
    /\ RecoveryInit
    /\ [][RecoveryNext]_vars
    /\ RecoveryFairness

----------------------------------------------------------------------------
(* Life cycle: the machine of a computer-driven cyclist or of a plain      *)
(* entity, with the component's destroy among the operations.              *)

\* StateMachineComponent.destroy
SmDestroy(w) ==
    LET w1 == IF w.current # None THEN Exited(Exit(w, w.current), w.current) ELSE w
    IN [w1 EXCEPT !.states = {}, !.history = <<>>, !.current = None]

DoDestroy ==
    /\ current # None \/ states # {}
    /\ Becomes(SmDestroy(World), Op("destroy", 0, FALSE))

LifecycleInit == StartsAs(NewCyclist("rider")) \/ StartsAs(NewEntity)

LifecycleNext ==
    \/ \E t \in StateType : DoAddState(t)
    \/ \E t \in StateType, force \in BOOLEAN : DoChangeState(t, force)
    \/ DoTriggerCrash
    \/ \E events \in EventLists : DoHandleEvents(events)
    \/ \E dt \in DtSet : DoUpdate(dt)
    \/ DoDestroy

LifecycleSpec == LifecycleInit /\ [][LifecycleNext]_vars

----------------------------------------------------------------------------
(* A PhysicsComponent driven directly by its callers: forces, impulses,    *)
(* velocity writes and changes of max_speed in any order between updates.  *)
(* The component sits on an entity with a TransformComponent and was built *)
(* with the cyclist's drag and max_speed and with a mass its caller chose.  *)

MassSet == {0, CyclistMass}
ForceSet == {<<AccelerationForce, 0>>, <<-BrakeForce, AccelerationForce>>}
ImpulseSet == {<<300 * CyclistMass, 500 * CyclistMass>>}
VelocitySet == {<<300 * VelScale, 500 * VelScale>>, <<-1000 * VelScale, 0>>}
MaxSpeedSet == {CarryingMaxSpeed, CyclistMaxSpeed}

\* PhysicsComponent.__init__ followed by init(): no mass is refused
NewPhysics(m) ==
    [Fresh("entity", {}) EXCEPT !.mass = m, !.maxSpeed = CyclistMaxSpeed]

Counted(w) == [w EXCEPT !.physicsCalls = @ + 1]

DoApplyForce(f) ==
    /\ physicsCalls < MaxCalls
    /\ Becomes(Counted(ApplyForce(World, f)), Op("apply_force", 0, FALSE))

DoApplyImpulse(j) ==
    /\ physicsCalls < MaxCalls
    /\ Becomes(Counted(ApplyImpulse(World, j)), Op("apply_impulse", 0, FALSE))

DoSetVelocity(v) ==
    /\ physicsCalls < MaxCalls
    /\ Becomes(Counted(SetVelocity(World, v)), Op("set_velocity", 0, FALSE))

\* physics.max_speed = value, as CarryingState and the terrain coupling do
DoSetMaxSpeed(m) ==
    /\ physicsCalls < MaxCalls
    /\ Becomes(Counted([World EXCEPT !.maxSpeed = m]), Op("set_max_speed", 0, FALSE))

DoPhysicsUpdate(dt) ==
    /\ physicsCalls < MaxCalls
    /\ Becomes(Counted(PhysicsUpdate(World, dt)), Op("physics_update", dt, FALSE))

PhysicsInit == \E m \in MassSet : StartsAs(NewPhysics(m))

PhysicsNext ==
    \/ \E f \in ForceSet : DoApplyForce(f)
    \/ \E j \in ImpulseSet : DoApplyImpulse(j)
    \/ \E v \in VelocitySet : DoSetVelocity(v)
    \/ \E m \in MaxSpeedSet : DoSetMaxSpeed(m)
    \/ \E dt \in DtSet : DoPhysicsUpdate(dt)

PhysicsSpec == PhysicsInit /\ [][PhysicsNext]_vars

----------------------------------------------------------------------------
(* Entity: attaching, detaching, enabling and updating components *)

ComponentTypes == {"Transform", "Physics", "Renderer"}

\* the siblings a component's init() looks up and cannot do without
Requires(t) == IF t = "Physics" THEN {"Transform"} ELSE {}

\* variant: the entity does not notice the type it already holds
HasNoComponent(w, t) == FALSE
\* Entity.has_component
HasComponent(w, t) == \E i \in DOMAIN w.components : w.components[i].type = t

\* IComponent.__init__: a new instance, enabled, not yet initialised
NewComponent(w, t) == [type |-> t, id |-> w.instances + 1, enabled |-> TRUE, ready |-> FALSE]

\* component.init(), called on the last component of the dict
ComponentInit(w) ==
    LET n == Len(w.components)
    IN IF \A r \in Requires(w.components[n].type) : HasComponent(w, r)
       THEN [w EXCEPT !.components[n].ready = TRUE]
       ELSE Raise(w, "RuntimeError")

\* Entity.add_component: the instance is stored before init() runs
AddComponent(w, t) ==
    IF HasComponent(w, t) THEN Raise(w, "ValueError")
    ELSE ComponentInit([w EXCEPT !.components = Append(@, NewComponent(w, t)),
                                 !.instances = @ + 1,
                                 !.destroyCalls = Append(@, 0)])

\* component.destroy() on the instance with this id
ComponentDestroy(w, id) == [w EXCEPT !.destroyCalls[id] = @ + 1]

\* component.destroy() on each of the components cs, in order
RECURSIVE DestroyEach(_, _)
DestroyEach(w, cs) ==
    IF cs = <<>> THEN w ELSE DestroyEach(ComponentDestroy(w, Head(cs).id), Tail(cs))

\* Entity.remove_component
RemoveComponent(w, t) ==
    IF ~HasComponent(w, t) THEN Raise(w, "ValueError")
    ELSE LET held == SelectSeq(w.components, LAMBDA c : c.type = t)
         IN [DestroyEach(w, held) EXCEPT
                !.components = SelectSeq(@, LAMBDA c : c.type # t)]

\* get_component(t).enabled = value
SetEnabled(w, t, value) ==
    [w EXCEPT !.components =
        [i \in DOMAIN @ |-> IF @[i].type = t THEN [@[i] EXCEPT !.enabled = value]
                                              ELSE @[i]]]

\* variant: the loop does not look at enabled
UpdatesAll(c) == TRUE
\* if component.enabled: component.update(delta_time)
IsUpdated(c) == c.enabled

\* the loop of Entity.update from component i on
RECURSIVE UpdateFrom(_, _)
UpdateFrom(w, i) ==
    IF i > Len(w.components) THEN w
    ELSE UpdateFrom(IF IsUpdated(w.components[i])
                    THEN [w EXCEPT !.updated = Append(@, w.components[i].id)]
                    ELSE w,
                    i + 1)

\* Entity.update over the components the entity holds, whatever they are
EntityUpdateLoop(w) == IF ~w.entityActive THEN w ELSE UpdateFrom(w, 1)

\* variant: destroy() leaves the components in the map
ClearKeepsComponents(w) == w
\* self._components.clear()
ClearComponents(w) == [w EXCEPT !.components = <<>>]

\* Entity.destroy
EntityDestroy(w) ==
    ClearComponents(DestroyEach([w EXCEPT !.toDestroy = TRUE], w.components))

\* EntityManager.add_entity
AddEntity(w) ==
    IF w.managed THEN Raise(w, "ValueError") ELSE [w EXCEPT !.managed = TRUE]

\* EntityManager.remove_entity
RemoveEntity(w) ==
    IF ~w.managed THEN w ELSE EntityDestroy([w EXCEPT !.managed = FALSE])

\* EntityManager.update, as far as this entity goes: its update when it is
\* registered and active, then the sweep of the entities marked to_destroy
ManagerUpdate(w) ==
    IF ~w.managed THEN w
    ELSE LET w1 == IF w.entityActive THEN EntityUpdateLoop(w) ELSE w
         IN IF w1.toDestroy THEN RemoveEntity(w1) ELSE w1

DoAddComponent(t) ==
    /\ instances < MaxInstances
    /\ Becomes(AddComponent(World, t), Op("add_component", 0, t))

DoRemoveComponent(t) ==
    /\ t \in ComponentTypes
    /\ Becomes(RemoveComponent(World, t), Op("remove_component", 0, t))

DoSetEnabled(t, value) ==
    /\ HasComponent(World, t)
    /\ Becomes(SetEnabled(World, t, value), Op("set_enabled", 0, t))

DoSetActive(value) ==
    /\ value \in BOOLEAN
    /\ Becomes([World EXCEPT !.entityActive = value], Op("set_active", 0, FALSE))

DoEntityUpdate(dt) ==
    /\ dt \in DtSet
    /\ Becomes(EntityUpdateLoop(World), Op("entity_update", dt, FALSE))

DoManagerUpdate(dt) ==
    /\ dt \in DtSet
    /\ Becomes(ManagerUpdate(World), Op("manager_update", dt, managed /\ toDestroy))

DoEntityDestroy ==
    /\ toDestroy \in BOOLEAN
    /\ Becomes(EntityDestroy(World), Op("destroy_entity", 0, FALSE))

DoAddEntity ==
    /\ managed \in BOOLEAN
    /\ Becomes(AddEntity(World), Op("add_entity", 0, managed))

DoRemoveEntity ==
    /\ managed \in BOOLEAN
    /\ Becomes(RemoveEntity(World), Op("remove_entity", 0, managed))

EntityInit == StartsAs(NewEntity)

EntityNext ==
    \/ \E t \in ComponentTypes : DoAddComponent(t)
    \/ \E t \in ComponentTypes : DoRemoveComponent(t)
    \/ \E t \in ComponentTypes, value \in BOOLEAN : DoSetEnabled(t, value)
    \/ \E value \in BOOLEAN : DoSetActive(value)
    \/ \E dt \in DtSet : DoEntityUpdate(dt)
    \/ \E dt \in DtSet : DoManagerUpdate(dt)
    \/ DoEntityDestroy
    \/ DoAddEntity
    \/ DoRemoveEntity

EntitySpec == EntityInit /\ [][EntityNext]_vars

----------------------------------------------------------------------------
(* A BalanceComponent driven directly: updates in changing surroundings,   *)
(* outside imbalances, resets and crash tests in any order.                *)

ContextSet ==
    {Context(NoTile, 0, 0, NoStamina),
     Context(Tile(45, 20), 0, 100, StaminaAt(80)),
     Context(Tile(0, 100), 500, CyclistMaxSpeed, NoStamina),
     Context(Tile(1, 60), 0, 200, StaminaAt(0))}
\* 30 is what the test scene applies; 30 + 30 + 35 leaves the balance on the
\* crash threshold
ImbalanceSet == {30, 35, -30}

BalanceCounted(b) == [b EXCEPT !.calls = @ + 1]

DoBalanceUpdate(ctx, dt) ==
    /\ balance.calls < MaxCalls
    /\ Becomes([World EXCEPT !.balance = BalanceCounted(BalanceUpdate(balance, ctx, dt))],
               Op("balance_update", dt, ctx))

DoApplyImbalance(amount) ==
    /\ balance.calls < MaxCalls
    /\ Becomes([World EXCEPT !.balance = BalanceCounted(ApplyImbalance(balance, amount))],
               Op("apply_imbalance", 0, amount))

DoResetBalance ==
    /\ balance.calls < MaxCalls
    /\ Becomes([World EXCEPT !.balance = BalanceCounted(ResetBalance(balance))],
               Op("reset_balance", 0, FALSE))

DoShouldCrash(result) ==
    /\ balance.calls < MaxCalls
    /\ result \in ShouldCrash(balance)
    /\ Becomes([World EXCEPT !.balance = BalanceCounted(balance)],
               Op("should_crash", 0, result))

BalanceInit == StartsAs(NewEntity)

BalanceNext ==
    \/ \E ctx \in ContextSet, dt \in DtSet : DoBalanceUpdate(ctx, dt)
    \/ \E amount \in ImbalanceSet : DoApplyImbalance(amount)
    \/ DoResetBalance
    \/ \E result \in BOOLEAN : DoShouldCrash(result)

BalanceSpec == BalanceInit /\ [][BalanceNext]_vars

----------------------------------------------------------------------------
(* A StaminaComponent driven directly: updates in changing surroundings,   *)
(* outside drains and fatigue, and switches of the recovery mode.          *)

StaminaContextSet ==
    {StaminaContext(NoDrainTile, 0),
     StaminaContext(DrainTile(0, 0), 100),
     StaminaContext(DrainTile(150, 10), CyclistMaxSpeed),
     StaminaContext(DrainTile(100, -20), 200)}
\* the test scene drains 20; three drains of 30 pass the three thresholds
DrainSet == {30, -30}
FatigueSet == {50, -50}

StaminaCounted(s) == [s EXCEPT !.calls = @ + 1]

DoStaminaUpdate(ctx, dt) ==
    /\ stamina.calls < MaxCalls
    /\ Becomes([World EXCEPT !.stamina = StaminaCounted(StaminaUpdate(stamina, ctx, dt))],
               Op("stamina_update", dt, ctx))

DoDrain(amount) ==
    /\ stamina.calls < MaxCalls
    /\ Becomes([World EXCEPT !.stamina = StaminaCounted(Drain(stamina, 100 * amount))],
               Op("drain", 0, amount))

DoApplyFatigue(amount) ==
    /\ stamina.calls < MaxCalls
    /\ Becomes([World EXCEPT !.stamina = StaminaCounted(ApplyFatigue(stamina, 100 * amount))],
               Op("apply_fatigue", 0, amount))

DoSetRecovering(isRecovering) ==
    /\ stamina.calls < MaxCalls
    /\ Becomes([World EXCEPT !.stamina = StaminaCounted(SetRecovering(stamina, isRecovering))],
               Op("set_recovering", 0, isRecovering))

StaminaInit == StartsAs(NewEntity)

StaminaNext ==
    \/ \E ctx \in StaminaContextSet, dt \in DtSet : DoStaminaUpdate(ctx, dt)
    \/ \E amount \in DrainSet : DoDrain(amount)
    \/ \E amount \in FatigueSet : DoApplyFatigue(amount)
    \/ \E isRecovering \in BOOLEAN : DoSetRecovering(isRecovering)

StaminaSpec == StaminaInit /\ [][StaminaNext]_vars

----------------------------------------------------------------------------
(* A terrain manager with an entity moving over and around its grid, the   *)
(* TerrainPhysicsComponent of the entity, and the other writers of the     *)
(* values it writes.                                                       *)

\* positions on the four tiles of the grid, on its first and last pixels, and
\* just outside it: left of it, above it, and on its far edge
PositionSet ==
    {<<0, 0>>, <<0, TileSize>>, <<TileSize, TileSize - 1>>, <<2 * TileSize - 1, TileSize>>,
     <<-1, 0>>, <<TileSize, -1>>, <<2 * TileSize, 0>>}
GridSet == {SandGrid, MixedGrid}
BaseMaxSpeedSet == {CyclistMaxSpeed, 400}
BaseDragSet == {CyclistDragPerMille, 1000}
WrittenMaxSpeedSet == {300}

TerrainCounted(t) == [t EXCEPT !.calls = @ + 1]

\* transform.position = Vector2(x, y)
DoSetPosition(position) ==
    /\ terrain.calls < MaxCalls
    /\ Becomes([World EXCEPT !.terrain = TerrainCounted([terrain EXCEPT !.position = position])],
               Op("set_position", 0, position))

DoGetTerrainAtPosition(position) ==
    /\ terrain.calls < MaxCalls
    /\ Becomes([World EXCEPT !.terrain =
                    TerrainCounted([terrain EXCEPT !.found = GetTerrainAtPosition(terrain.grid, position)])],
               Op("get_terrain_at_position", 0, position))

DoSetTerrainFromGrid(grid) ==
    /\ terrain.calls < MaxCalls
    /\ Becomes([World EXCEPT !.terrain = TerrainCounted([terrain EXCEPT !.grid = grid])],
               Op("set_terrain_from_grid", 0, <<0, 0>>))

DoTerrainPhysicsUpdate(dt) ==
    /\ terrain.calls < MaxCalls
    /\ Becomes([World EXCEPT !.terrain = TerrainCounted(TerrainPhysicsUpdate(terrain))],
               Op("terrain_update", dt, terrain.position))

DoSetBaseMaxSpeed(speed) ==
    /\ terrain.calls < MaxCalls
    /\ Becomes([World EXCEPT !.terrain = TerrainCounted(SetBaseMaxSpeed(terrain, speed))],
               Op("set_base_max_speed", 0, <<speed, 0>>))

DoSetBaseDrag(newDrag) ==
    /\ terrain.calls < MaxCalls
    /\ Becomes([World EXCEPT !.terrain = TerrainCounted(SetBaseDrag(terrain, newDrag))],
               Op("set_base_drag", 0, <<newDrag, 0>>))

\* physics.max_speed = speed, by anybody holding the PhysicsComponent
DoWriteMaxSpeed(speed) ==
    /\ terrain.calls < MaxCalls
    /\ Becomes([World EXCEPT !.terrain = TerrainCounted([terrain EXCEPT !.maxSpeed = 100 * speed])],
               Op("write_max_speed", 0, <<speed, 0>>))

TerrainInit == StartsAs(NewEntity)

TerrainNext ==
    \/ \E position \in PositionSet : DoSetPosition(position)
    \/ \E position \in PositionSet : DoGetTerrainAtPosition(position)
    \/ \E grid \in GridSet : DoSetTerrainFromGrid(grid)
    \/ \E dt \in DtSet : DoTerrainPhysicsUpdate(dt)
    \/ \E speed \in BaseMaxSpeedSet : DoSetBaseMaxSpeed(speed)
    \/ \E newDrag \in BaseDragSet : DoSetBaseDrag(newDrag)
    \/ \E speed \in WrittenMaxSpeedSet : DoWriteMaxSpeed(speed)

TerrainSpec == TerrainInit /\ [][TerrainNext]_vars

----------------------------------------------------------------------------
(* A terrain manager saved to a file and loaded again, and dictionaries    *)
(* that differ from a saved one in one place given to load_from_dict.      *)

LoaderTypeSet == {2, 7}
LoaderTileSizeSet == {TileSize, 16}
ManagerSet ==
    {Manager(Len(grid[1]), Len(grid), tileSize, grid) :
        tileSize \in LoaderTileSizeSet,
        grid \in UNION {[1..h -> [1..w -> LoaderTypeSet]] : w \in 1..MaxGridSide, h \in 1..MaxGridSide}}

\* a saved dictionary changed in one place
Damaged(data, how) ==
    CASE how = "intact" -> data
      [] how = "no_width" -> [data EXCEPT !.has = @ \ {"width"}]
      [] how = "no_height" -> [data EXCEPT !.has = @ \ {"height"}]
      [] how = "no_terrain_grid" -> [data EXCEPT !.has = @ \ {"terrain_grid"}]
      [] how = "no_tile_size" -> [data EXCEPT !.has = @ \ {"tile_size"}]
      [] how = "extra_row" -> [data EXCEPT !.grid = Append(@, @[1])]
      [] how = "short_row" -> [data EXCEPT !.grid[Len(data.grid)] = Tail(@)]
      [] how = "unknown_name" -> [data EXCEPT !.grid[Len(data.grid)][1] = "WATER"]
      [] how = "lower_case_name" -> [data EXCEPT !.grid[1][1] = "grass"]
DamageSet ==
    {"intact", "no_width", "no_height", "no_terrain_grid", "no_tile_size",
     "extra_row", "short_row", "unknown_name", "lower_case_name"}

DoSaveToFile ==
    /\ loader.manager.height > 0
    /\ Becomes([World EXCEPT !.loader =
                    [loader EXCEPT !.saved = TRUE, !.file = SaveToFile(loader.manager)]],
               Op("save_to_file", 0, FALSE))

DoLoadFromFile ==
    /\ loader.manager.height > 0
    /\ Becomes([World EXCEPT !.loader = LoadFromFile(loader)],
               Op("load_from_file", 0, loader.saved))

DoLoadFromDict(how) ==
    /\ loader.manager.height > 0
    /\ LET data == Damaged(SaveToFile(loader.manager), how)
       IN Becomes([World EXCEPT !.loader =
                      [loader EXCEPT !.data = data, !.result = LoadFromDict(data)]],
                  Op("load_from_dict", 0, how # "intact"))

LoaderInit == \E m \in ManagerSet : StartsAs([NewEntity EXCEPT !.loader = NewLoader(m)])

LoaderNext ==
    \/ DoSaveToFile
    \/ DoLoadFromFile
    \/ \E how \in DamageSet : DoLoadFromDict(how)

LoaderSpec == LoaderInit /\ [][LoaderNext]_vars

----------------------------------------------------------------------------
(* Calls of TerrainFactory.create and clear_cache in any order.            *)

FactoryCounted(f) == [f EXCEPT !.calls = @ + 1]

\* what a caller saw: first is the instance the first create of a type
\* returned, since the one the latest create of the type returned after
\* the latest clear_cache, earlier what since was before the call
Seen(before, f) ==
    LET type == f.returned.type
    IN [f EXCEPT !.first[type] = IF @ = 0 THEN f.returned.instance ELSE @,
                 !.since[type] = f.returned.instance,
                 !.earlier = before.since[type]]

DoFactoryCreate(type) ==
    /\ factory.calls < MaxCalls
    /\ Becomes([World EXCEPT !.factory = FactoryCounted(Seen(factory, FactoryCreate(factory, type)))],
               Op("create", 0, factory.first[type] # 0))

DoClearCache ==
    /\ factory.calls < MaxCalls
    /\ Becomes([World EXCEPT !.factory = FactoryCounted([ClearCache(factory) EXCEPT !.since = [type \in FactoryTypeSet |-> 0]])],
               Op("clear_cache", 0, FALSE))

FactoryInit == StartsAs(NewEntity)

FactoryNext ==
    \/ \E type \in FactoryTypeSet : DoFactoryCreate(type)
    \/ DoClearCache

FactorySpec == FactoryInit /\ [][FactoryNext]_vars

----------------------------------------------------------------------------
(* The player's cyclist with its TransformComponent written by callers     *)
(* between the frames.                                                     *)

RotationSet == {4000, -1571}
DegreesSet == {90, 270, -400}
TargetSet == {<<100, 0>>, <<-100, -300>>}
DirectionSet == {<<0, 0>>, <<-1, 0>>, <<3, 4>>}
TransformHeldSets == {{}, {"UP"}, {"UP", "RIGHT"}}

TransformCounted(w) == [w EXCEPT !.transform.calls = @ + 1]

DoSetRotation(value) ==
    /\ transform.calls < MaxCalls
    /\ Becomes(TransformCounted(SetRotation(World, value)), Op("set_rotation", 0, FALSE))

DoSetRotationDegrees(degrees) ==
    /\ transform.calls < MaxCalls
    /\ Becomes(TransformCounted(SetRotationDegrees(World, degrees)), Op("set_rotation_degrees", 0, FALSE))

DoRotate(angle) ==
    /\ transform.calls < MaxCalls
    /\ Becomes(TransformCounted(Rotate(World, angle)), Op("rotate", 0, FALSE))

DoRotateDegrees(degrees) ==
    /\ transform.calls < MaxCalls
    /\ Becomes(TransformCounted(RotateDegrees(World, degrees)), Op("rotate_degrees", 0, FALSE))

DoLookAt(target) ==
    /\ transform.calls < MaxCalls
    /\ Becomes(TransformCounted(LookAt(World, target)), Op("look_at", 0, FALSE))

DoLookInDirection(direction) ==
    /\ transform.calls < MaxCalls
    /\ Becomes(TransformCounted(LookInDirection(World, direction)), Op("look_in_direction", 0, FALSE))

DoCyclistUpdate(dt, held) ==
    /\ transform.calls < MaxCalls
    /\ Becomes(TransformCounted(CyclistUpdate(World, dt, held)),
               Op("entity_update", dt, velocity # Zero2))

TransformInit == StartsAs(NewCyclist("player"))

TransformNext ==
    \/ \E value \in RotationSet : DoSetRotation(value)
    \/ \E degrees \in DegreesSet : DoSetRotationDegrees(degrees)
    \/ \E angle \in RotationSet : DoRotate(angle)
    \/ \E degrees \in DegreesSet : DoRotateDegrees(degrees)
    \/ \E target \in TargetSet : DoLookAt(target)
    \/ \E direction \in DirectionSet : DoLookInDirection(direction)
    \/ \E dt \in DtSet, held \in TransformHeldSets : DoCyclistUpdate(dt, held)

TransformSpec == TransformInit /\ [][TransformNext]_vars

----------------------------------------------------------------------------
(* A CommandInputComponent given the events and pressed keys of a frame,   *)
(* on entities with and without the components its commands ask for.       *)

KeyDownSet == {<<>>, <<"SPACE">>, <<"C", "LSHIFT">>, <<"LSHIFT", "SPACE">>}
PressedSet == SUBSET {"UP", "DOWN", "LEFT", "S"}

DoDispatchUpdate(keyDowns, pressed) ==
    /\ dispatch.has \subseteq {"Physics", "Transform"}
    /\ Becomes([World EXCEPT !.dispatch = DispatchUpdate(dispatch, keyDowns, pressed)],
               Op("command_input_update", 0, dispatch.enabled))

DoEnable ==
    /\ ~dispatch.enabled
    /\ Becomes([World EXCEPT !.dispatch.enabled = TRUE], Op("enable", 0, FALSE))

DoDisable ==
    /\ dispatch.enabled
    /\ Becomes([World EXCEPT !.dispatch.enabled = FALSE], Op("disable", 0, FALSE))

DispatchInit ==
    \E has \in SUBSET {"Physics", "Transform"} :
        StartsAs([NewEntity EXCEPT !.dispatch = NewDispatch(has)])

DispatchNext ==
    \/ \E keyDowns \in KeyDownSet, pressed \in PressedSet : DoDispatchUpdate(keyDowns, pressed)
    \/ DoEnable
    \/ DoDisable

DispatchSpec == DispatchInit /\ [][DispatchNext]_vars

----------------------------------------------------------------------------
(* A cyclist with its state machine that was also given a                  *)
(* TerrainPhysicsComponent on a grid of sand, grass and concrete.  The     *)
(* states and the terrain coupling write the same PhysicsComponent:        *)
(* maxSpeed in px/s is what terrain.maxSpeed holds in hundredths.          *)

\* Entity.update of such a cyclist: the components of the constructor, then
\* the TerrainPhysicsComponent that was attached after it
RideUpdate(w, dt) ==
    LET w1 == EntityUpdate(w, dt, {})
        t1 == TerrainPhysicsUpdate([w1.terrain EXCEPT !.maxSpeed = 100 * w1.maxSpeed])
    IN [w1 EXCEPT !.terrain = t1, !.maxSpeed = t1.maxSpeed \div 100]

\* CyclistWithStates(...) followed by add_component(TerrainPhysicsComponent, ...)
NewRide(o) == [NewCyclist(o) EXCEPT !.terrain.grid = MixedGrid]

\* one frame: the events go to the machine, then Entity.update(dt)
DoRideFrame(events, dt) ==
    /\ transitionTime + dt <= MaxTime
    /\ Becomes(RideUpdate(SmHandleEvents(World, events), dt), Op("ride_frame", dt, HasToggle(events)))

\* the cyclist is put somewhere else between two frames
DoRideTo(position) ==
    /\ terrain.position # position
    /\ Becomes([World EXCEPT !.terrain.position = position], Op("ride_to", 0, FALSE))

DoRideCrash ==
    /\ current # "CRASHED"
    /\ Becomes(TriggerCrash(World), Op("ride_crash", 0, FALSE))

RideInit == StartsAs(NewRide("rider"))

RideNext ==
    \/ \E events \in FrameEventLists, dt \in DtSet : DoRideFrame(events, dt)
    \/ \E position \in PositionSet : DoRideTo(position)
    \/ DoRideCrash

RideSpec == RideInit /\ [][RideNext]_vars

----------------------------------------------------------------------------
(* An EntityManager and two entities whose tags change and which are       *)
(* destroyed, registered and removed in any order.                         *)

\* a call starts with no exception pending
Called(m) == [m EXCEPT !.calls = @ + 1, !.raised = None]

DoIndexedAdd(e) ==
    /\ indexes.calls < MaxCalls
    /\ Becomes([World EXCEPT !.indexes = IndexedAdd(Called(indexes), e)], Op("add_entity", 0, FALSE))

DoIndexedRemove(e) ==
    /\ indexes.calls < MaxCalls
    /\ Becomes([World EXCEPT !.indexes = IndexedRemove(Called(indexes), e)], Op("remove_entity", 0, FALSE))

DoIndexedUpdate ==
    /\ indexes.calls < MaxCalls
    /\ Becomes([World EXCEPT !.indexes = IndexedUpdate(Called(indexes))], Op("manager_update", 0, FALSE))

DoIndexedClear ==
    /\ indexes.calls < MaxCalls
    /\ Becomes([World EXCEPT !.indexes = IndexedClear(Called(indexes))], Op("clear", 0, FALSE))

DoAddTag(e, tag) ==
    /\ indexes.calls < MaxCalls
    /\ Becomes([World EXCEPT !.indexes = AddTag(Called(indexes), e, tag)], Op("add_tag", 0, FALSE))

DoRemoveTag(e, tag) ==
    /\ indexes.calls < MaxCalls
    /\ Becomes([World EXCEPT !.indexes = RemoveTag(Called(indexes), e, tag)], Op("remove_tag", 0, FALSE))

DoMarkDestroyed(e) ==
    /\ indexes.calls < MaxCalls
    /\ Becomes([World EXCEPT !.indexes = MarkDestroyed(Called(indexes), e)], Op("entity_destroy", 0, FALSE))

IndexesInit == StartsAs(NewEntity)

IndexesNext ==
    \/ \E e \in EntityIds : DoIndexedAdd(e)
    \/ \E e \in EntityIds : DoIndexedRemove(e)
    \/ DoIndexedUpdate
    \/ DoIndexedClear
    \/ \E e \in EntityIds, tag \in TagSet : DoAddTag(e, tag)
    \/ \E e \in EntityIds, tag \in TagSet : DoRemoveTag(e, tag)
    \/ \E e \in EntityIds : DoMarkDestroyed(e)

IndexesSpec == IndexesInit /\ [][IndexesNext]_vars

----------------------------------------------------------------------------
(* Properties *)

\* the step just taken was one call of change_state or trigger_crash
OneCall(op, calls) == op.op \in {"change_state", "trigger_crash"} /\ Len(calls) = 1

\* the transition graph as the specification lists it
AllowedEdges ==
    {<<"RIDING", "CARRYING">>, <<"RIDING", "CRASHED">>,
     <<"CARRYING", "REMOUNTING">>, <<"CARRYING", "CRASHED">>,
     <<"REMOUNTING", "RIDING">>, <<"REMOUNTING", "CRASHED">>,
     <<"CRASHED", "REMOUNTING">>}

\* C1 (as amended): with a current state, an unforced change_state(target)
\* returns true iff target is registered and current.can_transition_to(target);
\* from CRASHED, change_state(RIDING) returns false and the state stays
\* CRASHED, and change_state(REMOUNTING), once REMOUNTING is registered,
\* returns true and the state becomes REMOUNTING.
C1_UnforcedIffRegisteredAndAllowed ==
    /\ \A i \in DOMAIN log :
          (~log[i].force /\ log[i].from # None) =>
             (log[i].ok <=> (/\ log[i].to \in states
                             /\ CanTransitionTo(log[i].from, log[i].to)))
    /\ (OneCall(lastOp, log) /\ ~log[1].force /\ log[1].from = "CRASHED") =>
          /\ log[1].to = "RIDING" => (~log[1].ok /\ current = "CRASHED")
          /\ (log[1].to = "REMOUNTING" /\ "REMOUNTING" \in states) =>
                (log[1].ok /\ current = "REMOUNTING")

\* C1 as stated: an unforced change_state(target) returns true iff
\* current.can_transition_to(target), whatever is registered.
C1_UnforcedIffAllowed ==
    \A i \in DOMAIN log :
       (~log[i].force /\ log[i].from # None) =>
          (log[i].ok <=> CanTransitionTo(log[i].from, log[i].to))

\* an unforced change_state(REMOUNTING) made in CRASHED has succeeded
C1_Witness ==
    /\ lastOp.op = "change_state"
    /\ log = <<[from |-> "CRASHED", to |-> "REMOUNTING", force |-> FALSE, ok |-> TRUE]>>
    /\ current = "REMOUNTING"

\* C2: can_transition_to allows exactly the seven listed edges, every
\* unforced change of the current state follows one of them, and none of
\* them leads from a state to itself.
C2_ExactlyTheListedEdges ==
    /\ \A s \in StateType, t \in StateType :
          CanTransitionTo(s, t) <=> <<s, t>> \in AllowedEdges
    /\ \A i \in DOMAIN log :
          (~log[i].force /\ log[i].ok /\ log[i].from # None) =>
             /\ <<log[i].from, log[i].to>> \in AllowedEdges
             /\ log[i].from # log[i].to

\* the toggle key has taken a cyclist from CARRYING to REMOUNTING
C2_Witness ==
    /\ lastOp.op = "handle_events"
    /\ log = <<[from |-> "CARRYING", to |-> "REMOUNTING", force |-> FALSE, ok |-> TRUE]>>
    /\ current = "REMOUNTING"

\* C3: an unforced change_state whose target is not registered, or is not
\* allowed by the current state, returns false and leaves the current state,
\* the time-in-state counter, the history, the velocity and the max speed as
\* they were; no exit or enter ran (the state timers, the crash effect and
\* the pending forces are as they were, too).
C3_RefusalChangesNothing ==
    [][(/\ OneCall(lastOp', log')
        /\ ~log'[1].force
        /\ \/ log'[1].to \notin states
           \/ current # None /\ ~CanTransitionTo(current, log'[1].to))
       => /\ ~log'[1].ok
          /\ UNCHANGED <<states, current, transitionTime, history, velocity,
                         maxSpeed, forces, rotation, remElapsed, crElapsed,
                         crashedFx, sinceEntry>>]_vars

\* a moving, carrying cyclist was refused the change to RIDING (test 7's case)
C3_Witness ==
    /\ lastOp.op = "change_state"
    /\ log = <<[from |-> "CARRYING", to |-> "RIDING", force |-> FALSE, ok |-> FALSE]>>
    /\ current = "CARRYING"
    /\ velocity # Zero2
    /\ transitionTime > 0

\* C4: for a cyclist, the REMOUNTING timer is the update time since the
\* entry (it starts from zero on every entry); an update that leaves the
\* cumulative dt below the duration leaves the cyclist in REMOUNTING, and
\* the first update that takes it past the duration ends in RIDING.
C4_RemountingTimer ==
    [][/\ (owner' \in Cyclists /\ current' = "REMOUNTING") =>
             (remElapsed' = sinceEntry' /\ sinceEntry' < RemountDuration)
       /\ (/\ owner \in Cyclists
           /\ current = "REMOUNTING"
           /\ lastOp'.op \in {"update", "frame"}) =>
             /\ sinceEntry + lastOp'.dt < RemountDuration =>
                   (current' = "REMOUNTING" /\ log' = <<>>)
             /\ sinceEntry + lastOp'.dt > RemountDuration =>
                   /\ current' = "RIDING"
                   /\ log' = <<[from |-> "REMOUNTING", to |-> "RIDING",
                                force |-> FALSE, ok |-> TRUE]>>]_vars

\* update(0.6) then update(0.5) has brought a cyclist, some updates into
\* the race, from REMOUNTING to RIDING
C4_Witness ==
    /\ owner = "rider"
    /\ lastOp = Op("update", 5, FALSE)
    /\ log = <<[from |-> "REMOUNTING", to |-> "RIDING", force |-> FALSE, ok |-> TRUE]>>
    /\ current = "RIDING"
    /\ remElapsed = 11
    /\ transitionTime > 11

\* C5: left to its updates, a crashed cyclist stays CRASHED while its timer
\* is below the recovery duration, then goes to REMOUNTING (never directly
\* to RIDING), and a cyclist that is CRASHED or REMOUNTING eventually rides
\* again.
C5_CrashedRecovers ==
    /\ [][/\ (current' = "CRASHED") =>
                (crElapsed' = sinceEntry' /\ sinceEntry' < RecoveryDuration)
          /\ (current = "CRASHED" /\ lastOp'.op = "update") =>
                /\ sinceEntry + lastOp'.dt < RecoveryDuration =>
                      current' = "CRASHED"
                /\ sinceEntry + lastOp'.dt > RecoveryDuration =>
                      current' = "REMOUNTING"
                /\ current' # "RIDING"
          /\ (current = "REMOUNTING" /\ lastOp'.op = "update") =>
                current' \in {"REMOUNTING", "RIDING"}]_vars
    /\ (current = "CRASHED") ~> (current = "REMOUNTING")
    /\ (current \in {"CRASHED", "REMOUNTING"}) ~> (current = "RIDING")

\* a cyclist rides again after sitting out a whole crash and a whole remount
C5_Witness ==
    /\ current = "RIDING"
    /\ lastOp.op = "update"
    /\ log = <<[from |-> "REMOUNTING", to |-> "RIDING", force |-> FALSE, ok |-> TRUE]>>
    /\ crElapsed >= RecoveryDuration
    /\ remElapsed >= RemountDuration

\* C6 as stated: while the player's cyclist is REMOUNTING or CRASHED, a
\* whole frame with key-down events and held keys ends as the same frame
\* without any input: same state, velocity, accumulated forces and rotation.
C6_InputIgnoredWhileRecovering ==
    [][(/\ owner = "player"
        /\ current \in {"REMOUNTING", "CRASHED"}
        /\ lastOp'.op = "frame")
       => LET quiet == EntityUpdate(SmHandleEvents(SetEvents(World, <<>>), <<>>),
                                    lastOp'.dt, {})
          IN /\ current' = quiet.current
             /\ velocity' = quiet.velocity
             /\ forces' = quiet.forces
             /\ rotation' = quiet.rotation]_vars

\* C7 as stated: a successful change_state leaves the time-in-state counter
\* at 0, and an update in which no transition happens adds its dt to it.
C7_TimeInStateReset ==
    [][/\ (OneCall(lastOp', log') /\ log'[1].ok) => transitionTime' = 0
       /\ (lastOp'.op = "update" /\ log' = <<>> /\ current # None) =>
             transitionTime' = transitionTime + lastOp'.dt]_vars

\* C8: for a cyclist, max_speed is 0.3 x the base max speed exactly when
\* the current state is CARRYING and the base max speed otherwise.
C8_CarryingCap ==
    /\ 10 * CarryingMaxSpeed = 3 * CyclistMaxSpeed
    /\ owner \in Cyclists =>
          maxSpeed = IF current = "CARRYING" THEN CarryingMaxSpeed ELSE CyclistMaxSpeed

\* a cyclist has left CARRYING for REMOUNTING and has its base max speed back
C8_Witness ==
    /\ owner \in Cyclists
    /\ \E i \in DOMAIN log : log[i].ok /\ log[i].from = "CARRYING"
                             /\ log[i].to = "REMOUNTING"
    /\ current = "REMOUNTING"
    /\ maxSpeed = CyclistMaxSpeed

\* C9: for a cyclist, right after a successful transition into CRASHED,
\* forced or not, the velocity and the accumulated force are zero; right
\* after one into REMOUNTING the velocity is exactly half of what it was.
C9_EntryVelocity ==
    [][(/\ owner \in Cyclists
        /\ lastOp'.op \in {"change_state", "trigger_crash", "handle_events"}
        /\ Len(log') = 1
        /\ log'[1].ok)
       => /\ log'[1].to = "CRASHED" => (velocity' = Zero2 /\ forces' = Zero2)
          /\ log'[1].to = "REMOUNTING" =>
                (2 * velocity'[1] = velocity[1] /\ 2 * velocity'[2] = velocity[2])]_vars

\* a moving cyclist was forced into REMOUNTING and still moves
C9_Witness ==
    /\ lastOp.op = "change_state"
    /\ Len(log) = 1 /\ log[1].ok /\ log[1].force /\ log[1].to = "REMOUNTING"
    /\ current = "REMOUNTING"
    /\ velocity # Zero2

\* C10: a cyclist starts in RIDING and its current state is always one of
\* the four state types, never absent.
C10_AlwaysInAState ==
    owner \in Cyclists =>
       /\ current \in StateType
       /\ lastOp.op = "new" => current = "RIDING"

\* the player's cyclist is CRASHED after a trigger_crash that followed a frame
C10_Witness ==
    /\ owner = "player"
    /\ lastOp.op = "trigger_crash"
    /\ current = "CRASHED"
    /\ transitionTime > 0

\* C11: exactly one state is active at a time: every enter found no state
\* active (the old state had received exit before), every exit went to a
\* state that was active, and the states entered and not yet exited are
\* the current state alone, or none when there is no current state.
C11_EnterExitAlternate ==
    /\ alternates
    /\ active = IF current = None THEN {} ELSE {current}

\* a forced transition from a state to itself has just succeeded
C11_Witness ==
    /\ lastOp.op = "change_state"
    /\ Len(log) = 1 /\ log[1].ok /\ log[1].force
    /\ log[1].from = "CARRYING" /\ log[1].to = "CARRYING"
    /\ current = "CARRYING"

\* the last n entries of a sequence
LastN(seq, n) ==
    IF Len(seq) <= n THEN seq ELSE SubSeq(seq, Len(seq) - n + 1, Len(seq))

\* the targets of the successful calls among calls, in order
RECURSIVE Targets(_)
Targets(calls) ==
    IF calls = <<>> THEN <<>>
    ELSE (IF Head(calls).ok THEN <<Head(calls).to>> ELSE <<>>) \o Targets(Tail(calls))

ToggleTarget(s) == IF s = "RIDING" THEN "CARRYING" ELSE "REMOUNTING"

\* the successful calls among calls
Successes(calls) == {i \in DOMAIN calls : calls[i].ok}

SpeedSq == velocity[1] * velocity[1] + velocity[2] * velocity[2]
Top == maxSpeed * VelScale
UpdateReturned == lastOp.op = "physics_update" /\ raised = None

C17_ZeroMassRejected == mass # 0 /\ raised # "ValueError"

TypesHeld == {components[i].type : i \in DOMAIN components}

\* C18: an entity never holds two components of one type, and adding a
\* type it already holds raises ValueError, constructs no instance and
\* leaves the components, the original instance included, as they were.
C18_DuplicateAddRefused ==
    /\ [](Cardinality(TypesHeld) = Len(components))
    /\ [][(lastOp'.op = "add_component" /\ lastOp'.input \in TypesHeld) =>
             (/\ raised' = "ValueError"
              /\ components' = components
              /\ instances' = instances)]_vars

\* a second Transform was refused; the entity still holds the first
\* instance, and a Physics component next to it
C18_Witness ==
    /\ lastOp.op = "add_component"
    /\ lastOp.input = "Transform"
    /\ raised = "ValueError"
    /\ Len(components) = 2
    /\ components[1] = [type |-> "Transform", id |-> 1, enabled |-> TRUE, ready |-> TRUE]
    /\ components[2].type = "Physics"
    /\ instances = 2

\* C19: an add_component that fails on a missing sibling leaves the
\* components as they were, and no update ever reaches a component whose
\* init() failed.
C19_FailedAddChangesNothing ==
    [][/\ (lastOp'.op = "add_component" /\ raised' = "RuntimeError") =>
              components' = components
       /\ \A i \in DOMAIN components' :
              components'[i].id \in {updated'[j] : j \in DOMAIN updated'} =>
                 components'[i].ready]_vars

\* the ids Entity.update is to reach: the enabled components, in the order
\* they were attached
RECURSIVE EnabledIds(_)
EnabledIds(cs) ==
    IF cs = <<>> THEN <<>>
    ELSE (IF Head(cs).enabled THEN <<Head(cs).id>> ELSE <<>>) \o EnabledIds(Tail(cs))

\* C20: Entity.update calls update once on each enabled component, in
\* attachment order, skips the disabled ones and leaves them attached; an
\* inactive entity updates nothing, under EntityManager.update as well.
\* EntityManager.update reaches registered entities only, and after its
\* pass it sweeps an entity marked to_destroy, which then has no component.
C20_UpdatesEnabledInOrder ==
    [][(lastOp'.op \in {"entity_update", "manager_update"}) =>
          (/\ components' = IF lastOp'.op = "manager_update" /\ managed /\ toDestroy
                            THEN <<>> ELSE components
           /\ updated' = IF entityActive /\ (lastOp'.op = "manager_update" => managed)
                         THEN EnabledIds(components) ELSE <<>>
           /\ Cardinality({updated'[j] : j \in DOMAIN updated'}) = Len(updated'))]_vars

\* three components are attached, the middle one disabled: the update
\* reached the first and the third, in that order
C20_Witness ==
    /\ lastOp.op = "entity_update"
    /\ entityActive
    /\ Len(components) = 3
    /\ ~components[2].enabled
    /\ components[1].type = "Renderer"
    /\ updated = <<components[1].id, components[3].id>>

IdsHeld == {components[i].id : i \in DOMAIN components}
EntityDestroyed ==
    \/ lastOp.op = "destroy_entity"
    \/ lastOp.op = "remove_entity" /\ lastOp.input
    \/ lastOp.op = "manager_update" /\ lastOp.input

C22_BalanceInRange ==
    /\ 0 <= balance.current
    /\ balance.current <= 100 * BalanceMax
    /\ balance.instability >= 0

\* C24: should_crash returns True whenever the balance is at or below the
\* crash threshold and False whenever it is above the critical threshold,
\* and it changes neither the balance nor the instability.
C24_ShouldCrashThresholds ==
    [][(lastOp'.op = "should_crash") =>
          (/\ balance.current <= 100 * BalanceCrashThreshold => lastOp'.input
           /\ balance.current > 100 * BalanceCriticalThreshold => ~lastOp'.input
           /\ balance'.current = balance.current
           /\ balance'.instability = balance.instability)]_vars

\* should_crash has answered True for a balance that three imbalances left
\* exactly on the crash threshold
C24_Witness ==
    /\ lastOp.op = "should_crash"
    /\ lastOp.input
    /\ balance.current = 100 * BalanceCrashThreshold
    /\ balance.calls = 4

C23_StaminaInRange ==
    /\ 0 <= stamina.current
    /\ stamina.current <= 100 * StaminaMax
    /\ 0 <= stamina.fatigue
    /\ stamina.fatigue <= 100 * FatigueMax

C26_DrainOrRecover ==
    [][(lastOp'.op = "stamina_update") =>
          IF stamina.recovering
          THEN stamina'.current >= stamina.current /\ stamina'.fatigue <= stamina.fatigue
          ELSE stamina'.current <= stamina.current /\ stamina'.fatigue >= stamina.fatigue]_vars

\* the position of the last call lies on the grid
OnTheGrid(position) ==
    /\ 0 <= position[1] /\ position[1] < TileSize * GridWidth(terrain.grid)
    /\ 0 <= position[2] /\ position[2] < TileSize * GridHeight(terrain.grid)

\* C28: get_terrain_at_position returns the tile whose square holds the
\* position, the tile at (floor(x / tile_size), floor(y / tile_size)), when
\* the position is on the grid, and None, raising nothing, when a coordinate
\* is negative or at or past the far edge.
C28_TileOfPosition ==
    lastOp.op = "get_terrain_at_position" =>
        LET position == lastOp.input
            tile == terrain.found
        IN /\ raised = None
           /\ tile.present <=> OnTheGrid(position)
           /\ tile.present =>
                 /\ TileSize * tile.gridX <= position[1]
                 /\ position[1] < TileSize * (tile.gridX + 1)
                 /\ TileSize * tile.gridY <= position[2]
                 /\ position[2] < TileSize * (tile.gridY + 1)
                 /\ tile.type = terrain.grid[tile.gridY + 1][tile.gridX + 1]

\* a lookup one pixel left of the grid has returned None
C28_Witness ==
    /\ lastOp.op = "get_terrain_at_position"
    /\ lastOp.input = <<-1, 0>>
    /\ ~terrain.found.present

\* the terrain under a position, read off the grid
Sampled(t) ==
    IF /\ 0 <= t.position[1] /\ t.position[1] < TileSize * GridWidth(t.grid)
       /\ 0 <= t.position[2] /\ t.position[2] < TileSize * GridHeight(t.grid)
    THEN t.grid[(t.position[2] \div TileSize) + 1][(t.position[1] \div TileSize) + 1]
    ELSE "None"

\* C29: an update that samples a terrain other than the cached one leaves the
\* physics with max_speed = base max speed * speed multiplier and drag = base
\* drag - drag modifier kept within [0, 1], and caches the terrain.
C29_TerrainEffectsApplied ==
    [][(lastOp'.op = "terrain_update" /\ Sampled(terrain) # "None" /\ Sampled(terrain) # terrain.current) =>
          LET data == TerrainFactory(Sampled(terrain))
              newDrag == terrain.baseDrag - data.dragModifier
          IN /\ terrain'.maxSpeed = terrain.baseMaxSpeed * data.speedMultiplier
             /\ terrain'.drag = IF newDrag < 0 THEN 0 ELSE IF newDrag > 1000 THEN 1000 ELSE newDrag
             /\ terrain'.current = Sampled(terrain)]_vars

\* the first update on sand has halved the max speed of 450 to 225.0
C29_Witness ==
    /\ lastOp.op = "terrain_update"
    /\ terrain.calls = 1
    /\ terrain.current = "SAND"
    /\ terrain.maxSpeed = 22500
    /\ terrain.drag = 955

\* C30: an update that samples the cached terrain, or finds the entity
\* outside the grid, writes nothing: max_speed, drag and the cached terrain
\* stay as they were.
C30_SameTerrainWritesNothing ==
    [][(lastOp'.op = "terrain_update" /\ (Sampled(terrain) = "None" \/ Sampled(terrain) = terrain.current)) =>
          /\ terrain'.maxSpeed = terrain.maxSpeed
          /\ terrain'.drag = terrain.drag
          /\ terrain'.current = terrain.current]_vars

\* an update on the cached sand has left alone a max speed that somebody
\* else had written in between
C30_Witness ==
    /\ lastOp.op = "terrain_update"
    /\ terrain.current = "SAND"
    /\ Sampled(terrain) = "SAND"
    /\ terrain.maxSpeed = 30000

\* C31: a terrain manager that was saved and loaded from the saved file comes
\* back with the same width, height and tile size and the same terrain type
\* in every cell.
C31_SaveLoadRoundTrip ==
    (lastOp.op = "load_from_file" /\ lastOp.input) =>
        /\ loader.result.present
        /\ loader.result.manager.width = loader.manager.width
        /\ loader.result.manager.height = loader.manager.height
        /\ loader.result.manager.tileSize = loader.manager.tileSize
        /\ \A gridY \in 1..loader.manager.height : \A gridX \in 1..loader.manager.width :
              loader.result.manager.grid[gridY][gridX] = loader.manager.grid[gridY][gridX]

\* a grid of two rows and two columns with concrete and grass in it and
\* tiles of 16 pixels has come back from its file
C31_Witness ==
    /\ lastOp.op = "load_from_file"
    /\ lastOp.input
    /\ loader.result.present
    /\ loader.result.manager.grid = <<<<7, 2>>, <<2, 7>>>>
    /\ loader.result.manager.tileSize = 16

\* the names a map may hold
KnownNames == {"ASPHALT", "GRASS", "SAND", "MUD", "GRAVEL", "DIRT", "CONCRETE"}

\* the dictionary last given to the loader is one the claim lets through
WellFormed(data) ==
    /\ {"width", "height", "terrain_grid"} \subseteq data.has
    /\ Len(data.grid) = data.height
    /\ \A gridY \in 1..Len(data.grid) :
          /\ Len(data.grid[gridY]) = data.width
          /\ \A gridX \in 1..Len(data.grid[gridY]) : data.grid[gridY][gridX] \in KnownNames

\* C32: a load fails with an error and returns no manager whenever a
\* required field is missing, the rows or a row's cells are not as many as
\* declared, or a cell holds an unknown name; no default stands in for it.
C32_MalformedMapRefused ==
    (lastOp.op = "load_from_dict" /\ ~WellFormed(loader.data)) =>
        /\ ~loader.result.present
        /\ loader.result.error \in {"KeyError", "ValueError"}

\* a map with the unknown name WATER in its last row has been refused
C32_Witness ==
    /\ lastOp.op = "load_from_dict"
    /\ lastOp.input
    /\ loader.data.has = SaveToFile(loader.manager).has
    /\ Len(loader.data.grid) = loader.data.height
    /\ \A gridY \in 1..Len(loader.data.grid) : Len(loader.data.grid[gridY]) = loader.data.width
    /\ loader.data.grid[Len(loader.data.grid)][1] = "WATER"
    /\ loader.result.error = "ValueError"
    /\ ~loader.result.present

\* C33: for every terrain type, a call of TerrainFactory.create returns the
\* very instance that the call before it with the same type returned and
\* cached, whatever other types were created in between, as long as the
\* cache was not emptied by clear_cache.
C33_CreateReturnsCached ==
    (lastOp.op = "create" /\ lastOp.input) =>
        /\ factory.returned.data = TerrainFactory(factory.returned.type)
        /\ factory.earlier # 0 => factory.returned.instance = factory.earlier

\* sand was created a second time after concrete had been created in
\* between, and the first sand instance came back
C33_Witness ==
    /\ lastOp.op = "create"
    /\ lastOp.input
    /\ factory.returned.type = "SAND"
    /\ factory.earlier # 0
    /\ factory.returned.instance = factory.first["SAND"]
    /\ factory.registry["CONCRETE"] > factory.first["SAND"]

\* C34: the rotation stored by the transform lies within one full turn,
\* between -pi and pi, after any sequence of rotation assignments in
\* radians or degrees, rotate, rotate_degrees, look_at and
\* look_in_direction calls.
C34_RotationNormalized == -Pi <= rotation /\ rotation <= Pi

\* C35: after each Entity.update the position and rotation stored on the
\* Entity equal those of its TransformComponent, also in the frames where
\* physics moved the entity or a command rotated it.
C35_MirrorEqualsTransform ==
    lastOp.op = "entity_update" =>
        /\ transform.ownerPosition = transform.position
        /\ transform.ownerRotation = rotation

\* C36: in each CommandInputComponent.update the commands triggered by the
\* frame's pressed keys and key-down events are executed in non-increasing
\* priority order, and a command whose can_execute(entity) is false is not
\* executed (the others that were triggered are).
C36_ExecutedByPriority ==
    lastOp.op = "command_input_update" =>
        /\ \A i, j \in DOMAIN dispatch.executed :
              i < j => Priority(dispatch.executed[i]) >= Priority(dispatch.executed[j])
        /\ \A i \in DOMAIN dispatch.executed :
              \/ "Physics" \in dispatch.has /\ "Transform" \in dispatch.has
              \/ "Physics" \in dispatch.has /\ dispatch.executed[i] \in {"DOWN", "S"}
        /\ \A i \in DOMAIN dispatch.returned :
              {"Physics", "Transform"} \subseteq dispatch.has =>
                  \E j \in DOMAIN dispatch.executed : dispatch.executed[j] = dispatch.returned[i]

\* sprint, brake, accelerate and turn ran in this order for keys that were
\* collected as sprint, accelerate, brake, turn
C36_Witness ==
    /\ lastOp.op = "command_input_update"
    /\ dispatch.executed = <<"SPACE", "DOWN", "UP", "LEFT">>

\* on an entity without a transform only the brake ran although sprint
\* and accelerate were triggered with it
C36_RefusedWitness ==
    /\ lastOp.op = "command_input_update"
    /\ dispatch.has = {"Physics"}
    /\ dispatch.returned = <<"LSHIFT", "DOWN", "UP">>
    /\ dispatch.executed = <<"DOWN">>

\* C37: at the end of every frame in which a cyclist with a state machine
\* and a TerrainPhysicsComponent is RIDING and stands on a tile,
\* physics.max_speed is the base max speed times the tile's speed
\* multiplier, also after a state transition has reset the max speed while
\* the cyclist stayed on the same terrain.
C37_RidingSpeedFollowsTerrain ==
    (/\ lastOp.op = "ride_frame"
     /\ current = "RIDING"
     /\ OnTheGrid(terrain.position)) =>
        100 * maxSpeed
            = terrain.baseMaxSpeed
              * TerrainFactory(GetTerrainDataAtPosition(terrain.grid, terrain.position)).speedMultiplier

C39_IndexesAgree ==
    lastOp.op \in {"add_entity", "remove_entity", "manager_update", "clear"} =>
        /\ lastOp.op # "add_entity" => indexes.raised = None
        /\ \A e \in indexes.byId :
              /\ Occurrences(indexes.entities, e) = 1
              /\ Occurrences(indexes.byType[TypeOf(e)], e) = 1
              /\ \A tag \in TagSet :
                    Occurrences(indexes.byTag[tag], e)
                        = (IF Occurrences(indexes.tags[e], tag) > 0 THEN 1 ELSE 0)
        /\ \A e \in EntityIds \ indexes.byId :
              /\ Occurrences(indexes.entities, e) = 0
              /\ \A type \in EntityTypes : Occurrences(indexes.byType[type], e) = 0
              /\ \A tag \in TagSet : Occurrences(indexes.byTag[tag], e) = 0
        /\ lastOp.op \in {"manager_update", "clear"} =>
              \A e \in indexes.byId : ~indexes.toDestroy[e]
====
